---- MODULE Spec2Model ----
(***************************************************************************)
(* A model of genEM3's WkwData dataset (src/genEM3/data/wkwdata.py): the   *)
(* coordinate grids, the global index ranges, the train/validation/test    *)
(* split, and the RAM/HDD cache in front of the wkw store.                 *)
(*                                                                         *)
(* Conventions.  A bbox is a 6-tuple <<x, y, z, ex, ey, ez>> (python list  *)
(* positions 0..5 are positions 1..6 here).  A numpy 3-d array is a record *)
(* [shape |-> <<d0,d1,d2>>, at |-> f] with f defined on the 0-based        *)
(* subscripts <<i,j,k>>.  Values that are indices in python (source_idx,   *)
(* sample_idx, mesh_inds) stay 0-based; a python list l is a sequence and  *)
(* l[i] is written l[i + 1].  The channel axis of wkw data is left out:    *)
(* every slice of the code keeps it whole.                                 *)
(***************************************************************************)
EXTENDS Integers, Sequences, FiniteSets, TLC

VARIABLES
    input_shape,            \* self.input_shape
    output_shape,           \* self.output_shape
    stride,                 \* self.stride
    data_sources,           \* self.data_sources
    data_split,             \* self.data_split
    cache_RAM,              \* self.cache_RAM
    cache_HDD,              \* self.cache_HDD
    data_meshes,            \* self.data_meshes
    data_inds_min,          \* self.data_inds_min
    data_inds_max,          \* self.data_inds_max
    data_train_inds,        \* self.data_train_inds
    data_validation_inds,   \* self.data_validation_inds
    data_test_inds,         \* self.data_test_inds
    data_cache_input,       \* self.data_cache_input
    wkw_store,              \* the wkw datasets at the source paths
    hdd_cache,              \* the wkw datasets below cache_HDD_root
    fill_pos,               \* position of fill_caches in its loop
    normalize,              \* self.normalize
    transforms,             \* self.transforms
    pad_target,             \* self.pad_target
    data_cache_output,      \* self.data_cache_output
    n_writes,               \* the calls of write_output_to_cache so far
    workers,                \* the workers that fill the caches side by side
    output_wkw,             \* the datasets below output_wkw_root
    first_sample,           \* what the first call of get_ordered_sample returned
    other_sample,           \* whether another index was requested since
    first_split,            \* the split sets of the dataset built before this one
    rng_pos,                \* np.random: the permutations drawn since the seed was set
    rng_stream,             \* np.random: what the seeded generator yields, as far as seen
    json_files,             \* the descriptor files: what each path holds
    memo_source,            \* lru_cache of get_source_idx_from_sample_idx
    memo_target,            \* lru_cache of get_target_from_sample_idx
    pc,                     \* where __init__ is; "ready" once it returned
    ret                     \* what the last operation returned or raised

config_vars == <<input_shape, output_shape, stride, data_sources, data_split,
                 cache_RAM, cache_HDD, wkw_store, normalize, transforms, pad_target>>
grid_vars == <<data_meshes, data_inds_min, data_inds_max>>
split_vars == <<data_train_inds, data_validation_inds, data_test_inds>>
cache_vars == <<data_cache_input, hdd_cache, fill_pos>>
more_vars == <<data_cache_output, n_writes, workers, output_wkw>>
proc_vars == <<first_sample, other_sample, first_split>>
rng_vars == <<rng_pos, rng_stream>>
registry_vars == <<json_files>>
memo_vars == <<memo_source, memo_target>>
vars == <<config_vars, grid_vars, split_vars, cache_vars, more_vars, proc_vars, rng_vars, registry_vars, memo_vars, pc, ret>>

----------------------------------------------------------------------------
(* Bounds of the explored inputs *)

MaxSources == 2
MaxWindow == 2
MaxStride == 2
MaxShuffleLen == 4
MaxIdList == 2
VoxelValues == 4
MaxWrites == 2
MaxWorkers == 2

----------------------------------------------------------------------------
(* numpy helpers *)

\* python's None
None == [kind |-> "None"]

Min2(a, b) == IF a <= b THEN a ELSE b
Max2(a, b) == IF a >= b THEN a ELSE b

\* ceil(a / b) for b > 0
CeilDiv(a, b) == -((-a) \div b)

\* np.arange(start, stop, step) for a positive integer step
arange(start, stop, step) ==
    [k \in 1..Max2(0, CeilDiv(stop - start, step)) |-> start + (k - 1) * step]

\* the subscripts of an array of the given shape
Index3(shape) ==
    {<<i, j, k>> : i \in 0..(shape[1] - 1), j \in 0..(shape[2] - 1), k \in 0..(shape[3] - 1)}

\* ndarray.size
size(a) == a.shape[1] * a.shape[2] * a.shape[3]

\* np.meshgrid(x, y, z) with the default indexing='xy': the three arrays have
\* shape (len(y), len(x), len(z)); xm[i,j,k] = x[j], ym[i,j,k] = y[i], zm[i,j,k] = z[k]
meshgrid(x, y, z) ==
    LET shape == <<Len(y), Len(x), Len(z)>>
    IN  [x |-> [shape |-> shape, at |-> [p \in Index3(shape) |-> x[p[2] + 1]]],
         y |-> [shape |-> shape, at |-> [p \in Index3(shape) |-> y[p[1] + 1]]],
         z |-> [shape |-> shape, at |-> [p \in Index3(shape) |-> z[p[3] + 1]]]]

\* np.unravel_index(r, dims) in row-major order; ValueError when r is no
\* index of an array of that shape
ValueError == <<"ValueError">>

unravel_index(r, dims) ==
    IF r < 0 \/ r >= dims[1] * dims[2] * dims[3] THEN ValueError
    ELSE <<r \div (dims[2] * dims[3]), (r \div dims[3]) % dims[2], r % dims[3]>>

\* np.argmax(b) of a boolean list: the first position holding True, 0 if none
argmax(b) ==
    IF \E i \in 1..Len(b) : b[i]
    THEN (CHOOSE i \in 1..Len(b) : b[i] /\ \A j \in 1..(i - 1) : ~b[j]) - 1
    ELSE 0

----------------------------------------------------------------------------
(* Coordinate grids: get_data_mesh, get_data_meshes *)

corner_min_target(bbox, shape) ==
    [a \in 1..3 |-> bbox[a] + (shape[a] \div 2)]

n_fits_no_plus_one(bbox, shape, strd) ==
    [a \in 1..3 |-> ((bbox[3 + a] - shape[a]) \div strd[a])]

\* the windows counted by rounding up
n_fits_rounded_up(bbox, shape, strd) ==
    [a \in 1..3 |-> CeilDiv(bbox[3 + a] - shape[a], strd[a]) + 1]

n_fits(bbox, shape, strd) ==
    [a \in 1..3 |-> ((bbox[3 + a] - shape[a]) \div strd[a]) + 1]

get_data_mesh(data_source_idx) ==
    LET bbox == data_sources[data_source_idx + 1].input_bbox
        cmin == corner_min_target(bbox, input_shape)
        n == n_fits(bbox, input_shape, stride)
        cmax == [a \in 1..3 |-> cmin[a] + (n[a] - 1) * stride[a]]
        x == arange(cmin[1], cmax[1] + stride[1], stride[1])
        y == arange(cmin[2], cmax[2] + stride[2], stride[2])
        z == arange(cmin[3], cmax[3] + stride[3], stride[3])
        m == meshgrid(x, y, z)
    IN  [input |-> m, target |-> m]

----------------------------------------------------------------------------
(* Index ranges: get_data_ind_ranges, __len__ *)

RECURSIVE ind_ranges_overlapping(_, _)
ind_ranges_overlapping(meshes, n) ==
    IF n = 0 THEN [min |-> <<>>, max |-> <<>>]
    ELSE LET prev == ind_ranges_overlapping(meshes, n - 1)
             lo == IF n = 1 THEN 0 ELSE prev.max[n - 1]
         IN  [min |-> Append(prev.min, lo),
              max |-> Append(prev.max, lo + size(meshes[n].target.x) - 1)]

\* the lists data_inds_min and data_inds_max after the loop has run over the
\* first n sources
RECURSIVE ind_ranges(_, _)
ind_ranges(meshes, n) ==
    IF n = 0 THEN [min |-> <<>>, max |-> <<>>]
    ELSE LET prev == ind_ranges(meshes, n - 1)
             lo == IF n = 1 THEN 0 ELSE prev.max[n - 1] + 1
         IN  [min |-> Append(prev.min, lo),
              max |-> Append(prev.max, lo + size(meshes[n].target.x) - 1)]

\* __len__
len_self == data_inds_max[Len(data_inds_max)] + 1

----------------------------------------------------------------------------
(* Index translation *)

get_source_mesh_strictly_greater(sample_idx) ==
    LET source_idx == argmax([i \in 1..Len(data_inds_max) |-> data_inds_max[i] > sample_idx])
        mesh_inds == unravel_index(sample_idx - data_inds_min[source_idx + 1],
                                   data_meshes[source_idx + 1].target.x.shape)
    IN  <<source_idx, mesh_inds>>

get_source_mesh_for_sample_idx(sample_idx) ==
    LET source_idx == argmax([i \in 1..Len(data_inds_max) |-> data_inds_max[i] >= sample_idx])
        mesh_inds == unravel_index(sample_idx - data_inds_min[source_idx + 1],
                                   data_meshes[source_idx + 1].target.x.shape)
    IN  <<source_idx, mesh_inds>>

get_bbox_for_sample_idx(sample_idx, sample_type) ==
    LET sm == get_source_mesh_for_sample_idx(sample_idx)
        source_idx == sm[1]
        mesh_inds == sm[2]
        shape == IF sample_type = "input" THEN input_shape ELSE output_shape
        mesh == IF sample_type = "input" THEN data_meshes[source_idx + 1].input
                                         ELSE data_meshes[source_idx + 1].target
    IN  IF mesh_inds = ValueError THEN ValueError
        ELSE <<source_idx,
               <<mesh.x.at[mesh_inds] - (shape[1] \div 2),
                 mesh.y.at[mesh_inds] - (shape[2] \div 2),
                 mesh.z.at[mesh_inds] - (shape[3] \div 2),
                 shape[1], shape[2], shape[3]>> >>

----------------------------------------------------------------------------
(* Split planner: get_data_ind_splits, datasource_id_to_idx *)

\* A fraction of data_split is the float k / FracDen, held as k.  With FracDen
\* a power of two the float and its products with small integers are exact, so
\* int(fraction * maxIndex) is the floor of the exact product.
FracDen == 8
MaxStatUpdates == 2

int_times(fraction, maxIndex) == (fraction * maxIndex) \div FracDen

\* the elements of a list
set(l) == {l[i] : i \in 1..Len(l)}

\* l[a:b] with an end that is taken too
slice_inclusive(l, a, b) ==
    SubSeq(l, Min2(a, Len(l)) + 1, Min2(b + 1, Len(l)))

\* l[a:b] for a list l and a, b >= 0
slice(l, a, b) ==
    SubSeq(l, Min2(a, Len(l)) + 1, Min2(b, Len(l)))

\* list(s) of a set of integers (python iterates small ints in order)
RECURSIVE list_of(_)
list_of(s) ==
    IF s = {} THEN <<>>
    ELSE LET m == CHOOSE x \in s : \A y \in s : x <= y
         IN  <<m>> \o list_of(s \ {m})

\* lines 213-217, every index left behind goes to train and nothing is raised
reconcile_append_all(train, index_left) ==
    [raised |-> "", train |-> train \o index_left]

\* lines 213-217, the index left behind is not added
reconcile_drop(train, index_left) ==
    IF Len(index_left) > 1 THEN [raised |-> "Exception", train |-> train]
    ELSE [raised |-> "", train |-> train]

\* lines 213-217: one index left behind goes to train, more than one raises
reconcile(train, index_left) ==
    IF Len(index_left) = 1 THEN [raised |-> "", train |-> train \o index_left]
    ELSE IF Len(index_left) > 1 THEN [raised |-> "Exception", train |-> train]
    ELSE [raised |-> "", train |-> train]

\* lines 194-218 for the permutation np.random.permutation returned
fraction_split(data_inds_all_rand) ==
    LET maxIndex == len_self
        data_inds_all == [i \in 1..maxIndex |-> i - 1]
        train_idx_max == int_times(data_split.train, maxIndex)
        train0 == slice(data_inds_all_rand, 0, train_idx_max)
        validation_idx_max == train_idx_max + int_times(data_split.validation, maxIndex)
        validation == slice(data_inds_all_rand, train_idx_max, validation_idx_max)
        test_idx_max == validation_idx_max + int_times(data_split.test, maxIndex)
        test == slice(data_inds_all_rand, validation_idx_max, test_idx_max)
        index_left == list_of(set(data_inds_all) \ set(train0 \o validation \o test))
        r == reconcile(train0, index_left)
    IN  IF r.raised # "" THEN [raised |-> r.raised, train |-> <<>>, validation |-> <<>>, test |-> <<>>]
        ELSE IF len_self # Cardinality(set(r.train \o validation \o test))
        THEN [raised |-> "AssertionError", train |-> <<>>, validation |-> <<>>, test |-> <<>>]
        ELSE [raised |-> "", train |-> r.train, validation |-> validation, test |-> test]

\* datasource_id_to_idx: list.index(id), -1 standing for its ValueError
datasource_id_to_idx(id) ==
    IF \E i \in 1..Len(data_sources) : data_sources[i].id = id
    THEN (CHOOSE i \in 1..Len(data_sources) :
            /\ data_sources[i].id = id
            /\ \A j \in 1..(i - 1) : data_sources[j].id # id) - 1
    ELSE -1

\* list(range(lo, hi))
range_list(lo, hi) == [k \in 1..Max2(0, hi - lo) |-> lo + k - 1]

\* the indices of a source without its last one
source_inds_without_last(idx) ==
    range_list(data_inds_min[idx + 1], data_inds_max[idx + 1])

\* lines 224, 229, 234: the indices of the source at position idx
source_inds(idx) ==
    range_list(data_inds_min[idx + 1], data_inds_max[idx + 1] + 1)

\* one of the loops of lines 221-234 over a list of ids; <<-1>> when an id
\* names no source
RECURSIVE strata_inds(_)
strata_inds(ids) ==
    IF ids = <<>> THEN <<>>
    ELSE LET idx == datasource_id_to_idx(Head(ids))
             rest == strata_inds(Tail(ids))
         IN  IF idx = -1 \/ rest = <<-1>> THEN <<-1>>
             ELSE source_inds(idx) \o rest

\* lines 221-234
strata_split ==
    LET train == strata_inds(data_split.train)
        validation == strata_inds(data_split.validation)
        test == strata_inds(data_split.test)
    IN  IF <<-1>> \in {train, validation, test}
        THEN [raised |-> "ValueError", train |-> <<>>, validation |-> <<>>, test |-> <<>>]
        ELSE [raised |-> "", train |-> train, validation |-> validation, test |-> test]

----------------------------------------------------------------------------
(* The wkw store and the cache manager: wkw_read, wkw_write, fill_cache,    *)
(* wkw_read_cached, assert_data_completeness                                *)

\* A wkw dataset is a function from the voxels written to it to their values;
\* every other voxel reads as 0.  hdd_cache[path] is the dataset at
\* os.path.join(cache_HDD_root, path[1::]): [dir |-> the directory exists,
\* header |-> header.wkw exists, data |-> its voxels].

\* the voxels of a bbox
BoxVoxels(bbox) ==
    {<<bbox[1] + p[1], bbox[2] + p[2], bbox[3] + p[3]>> : p \in Index3(<<bbox[4], bbox[5], bbox[6]>>)}

\* wkw_read on the opened dataset: w.read(wkw_bbox[0:3], wkw_bbox[3:6])
wkw_read(dataset, wkw_bbox) ==
    LET shape == <<wkw_bbox[4], wkw_bbox[5], wkw_bbox[6]>>
    IN  [shape |-> shape,
         at |-> [p \in Index3(shape) |->
                    LET v == <<wkw_bbox[1] + p[1], wkw_bbox[2] + p[2], wkw_bbox[3] + p[3]>>
                    IN  IF v \in DOMAIN dataset THEN dataset[v] ELSE 0]]

\* wkw_write on the opened dataset: w.write(wkw_bbox[0:3], data)
wkw_write(dataset, wkw_bbox, data) ==
    [v \in DOMAIN dataset \cup BoxVoxels(wkw_bbox) |->
        IF v \in BoxVoxels(wkw_bbox)
        THEN data.at[<<v[1] - wkw_bbox[1], v[2] - wkw_bbox[2], v[3] - wkw_bbox[3]>>]
        ELSE dataset[v]]

\* str(wkw_bbox), the key of the memory table
str(wkw_bbox) == <<"str", wkw_bbox>>

\* np.any over the voxels of data whose subscript on the axis is i
any_on_face(data, axis, i) ==
    \E p \in DOMAIN data.at : p[axis] = i /\ data.at[p] # 0

\* the check with the far faces left out
assert_data_completeness_near_faces(data) ==
    \A axis \in 1..3 : any_on_face(data, axis, 0)

assert_data_completeness(data) ==
    /\ any_on_face(data, 1, 0) /\ any_on_face(data, 1, data.shape[1] - 1)
    /\ any_on_face(data, 2, 0) /\ any_on_face(data, 2, data.shape[2] - 1)
    /\ any_on_face(data, 3, 0) /\ any_on_face(data, 3, data.shape[3] - 1)

\* d[key] = value on a python dict
dict_set(d, key, value) ==
    [k \in DOMAIN d \cup {key} |-> IF k = key THEN value ELSE d[k]]

\* no array
NoData == [shape |-> <<0, 0, 0>>, at |-> <<>>]

\* lines 369-375 of fill_cache: the cube, the reads that produced it and what
\* the disk cache held
fill_cache_data(wkw_path, wkw_bbox) ==
    IF cache_HDD /\ hdd_cache[wkw_path].header
    THEN LET data == wkw_read(hdd_cache[wkw_path].data, wkw_bbox)
         IN  IF assert_data_completeness(data) = FALSE
             THEN [data |-> wkw_read(wkw_store[wkw_path], wkw_bbox),
                   reads |-> <<"hdd", "source">>, hdd_data |-> data]
             ELSE [data |-> data, reads |-> <<"hdd">>, hdd_data |-> data]
    ELSE [data |-> wkw_read(wkw_store[wkw_path], wkw_bbox), reads |-> <<"source">>,
          hdd_data |-> NoData]

\* lines 378-382 of fill_cache
fill_cache_RAM(wkw_path, wkw_bbox, data) ==
    IF cache_RAM
    THEN IF wkw_path \notin DOMAIN data_cache_input
         THEN dict_set(data_cache_input, wkw_path, dict_set(<<>>, str(wkw_bbox), data))
         ELSE dict_set(data_cache_input, wkw_path,
                       dict_set(data_cache_input[wkw_path], str(wkw_bbox), data))
    ELSE data_cache_input

\* lines 385-392 with the write left out when the dataset was there
fill_cache_HDD_if_absent(wkw_path, wkw_bbox, data) ==
    IF cache_HDD /\ ~hdd_cache[wkw_path].header
    THEN dict_set(hdd_cache, wkw_path,
                  [dir |-> TRUE, header |-> TRUE,
                   data |-> wkw_write(hdd_cache[wkw_path].data, wkw_bbox, data)])
    ELSE hdd_cache

\* lines 385-392 of fill_cache
fill_cache_HDD(wkw_path, wkw_bbox, data) ==
    IF cache_HDD
    THEN dict_set(hdd_cache, wkw_path,
                  [dir |-> TRUE, header |-> TRUE,
                   data |-> wkw_write(hdd_cache[wkw_path].data, wkw_bbox, data)])
    ELSE hdd_cache

\* w.write(wkw_bbox[0:3], data) as far as the voxels of part: the library
\* writes the files of a dataset block by block
wkw_write_part(dataset, wkw_bbox, data, part) ==
    [v \in DOMAIN dataset \cup part |->
        IF v \in part
        THEN data.at[<<v[1] - wkw_bbox[1], v[2] - wkw_bbox[2], v[3] - wkw_bbox[3]>>]
        ELSE dataset[v]]

\* a[start:stop] on an axis of length n: the first subscript and the count
np_slice(start, stop, n) ==
    LET norm(i) == IF i < 0 THEN Max2(i + n, 0) ELSE Min2(i, n)
    IN  <<norm(start), Max2(0, norm(stop) - norm(start))>>

\* data[:, r0:r0+e0, r1:r1+e1, r2:r2+e2] with the slices one voxel late
cube_slice_shifted(data, rel_pos, ext) ==
    LET sl == [a \in 1..3 |-> np_slice(rel_pos[a] + 1, rel_pos[a] + 1 + ext[a], data.shape[a])]
        shape == <<sl[1][2], sl[2][2], sl[3][2]>>
    IN  [shape |-> shape,
         at |-> [p \in Index3(shape) |->
                    data.at[<<sl[1][1] + p[1], sl[2][1] + p[2], sl[3][1] + p[3]>>]]]

\* lines 408-413: data[:, r0:r0+e0, r1:r1+e1, r2:r2+e2]
cube_slice(data, rel_pos, ext) ==
    LET sl == [a \in 1..3 |-> np_slice(rel_pos[a], rel_pos[a] + ext[a], data.shape[a])]
        shape == <<sl[1][2], sl[2][2], sl[3][2]>>
    IN  [shape |-> shape,
         at |-> [p \in Index3(shape) |->
                    data.at[<<sl[1][1] + p[1], sl[2][1] + p[2], sl[3][1] + p[3]>>]]]

\* wkw_read_cached: what it returns or raises, and the tiers it read.  Both
\* operands of the & of line 405 are evaluated, so a path that is no key of
\* data_cache_input raises KeyError.
wkw_read_cached(source_idx, source_type, wkw_bbox) ==
    LET source == data_sources[source_idx + 1]
        wkw_path == IF source_type = "input" THEN source.input_path ELSE source.target_path
        abs_pos == IF source_type = "input" THEN source.input_bbox ELSE source.target_bbox
    IN  IF wkw_path \notin DOMAIN data_cache_input
        THEN [raised |-> "KeyError", data |-> NoData, reads |-> <<>>]
        ELSE IF str(abs_pos) \in DOMAIN data_cache_input[wkw_path]
        THEN [raised |-> "",
              data |-> cube_slice(data_cache_input[wkw_path][str(abs_pos)],
                                  <<wkw_bbox[1] - abs_pos[1], wkw_bbox[2] - abs_pos[2],
                                    wkw_bbox[3] - abs_pos[3]>>,
                                  <<wkw_bbox[4], wkw_bbox[5], wkw_bbox[6]>>),
              reads |-> <<"ram">>]
        ELSE IF hdd_cache[wkw_path].header
        THEN [raised |-> "", data |-> wkw_read(hdd_cache[wkw_path].data, wkw_bbox),
              reads |-> <<"hdd">>]
        ELSE [raised |-> "", data |-> wkw_read(wkw_store[wkw_path], wkw_bbox),
              reads |-> <<"source">>]

----------------------------------------------------------------------------
(* The sample assembler: get_ordered_sample and pad.  A sample array is a   *)
(* record [shape |-> the dimensions, at |-> f] of any number of axes, with  *)
(* the channel axis of wkw data first; its values are the fractions         *)
(* <<numerator, denominator>>, which the dtype conversions (float, long)    *)
(* leave as they are.                                                       *)

\* the subscripts of an array of the given shape
IndexN(shape) ==
    LET top == IF shape = <<>> THEN 0
               ELSE CHOOSE m \in {shape[i] : i \in DOMAIN shape} :
                       \A i \in DOMAIN shape : shape[i] <= m
    IN  {p \in [DOMAIN shape -> 0..Max2(top - 1, 0)] : \A i \in DOMAIN shape : p[i] < shape[i]}

\* the (channels, x, y, z) array that wkw's read returns, one channel (the
\* array operators below take their argument a from {x}, its value)
from_wkw(data) ==
    CHOOSE r \in {[shape |-> <<1>> \o a.shape,
                   at |-> [p \in IndexN(<<1>> \o a.shape) |-> <<a.at[Tail(p)], 1>>]] :
                      a \in {data}} : TRUE

\* a sequence without its position i
drop_axis(q, i) == [k \in 1..(Len(q) - 1) |-> IF k < i THEN q[k] ELSE q[k + 1]]
\* a sequence with x put in at position i
put_axis(q, i, x) ==
    [k \in 1..(Len(q) + 1) |-> IF k < i THEN q[k] ELSE IF k = i THEN x ELSE q[k - 1]]

\* x.squeeze(3) when shape_arg[2] == 1 and x.dim() > 3 and x.shape[3] == 1
\* (lines 262-263, 293-294)
squeeze_depth(x, shape_arg) ==
    CHOOSE r \in {IF shape_arg[3] = 1 /\ Len(a.shape) > 3 /\ a.shape[4] = 1
                  THEN [shape |-> drop_axis(a.shape, 4),
                        at |-> [p \in IndexN(drop_axis(a.shape, 4)) |-> a.at[put_axis(p, 4, 0)]]]
                  ELSE a : a \in {x}} : TRUE

\* WkwData.normalize: (data - mean) / std
normalize_data(x, mean, std) ==
    CHOOSE r \in {[shape |-> a.shape,
                   at |-> [p \in DOMAIN a.at |->
                              <<a.at[p][1] - mean * a.at[p][2], a.at[p][2] * std>>]] :
                      a \in {x}} : TRUE

\* the configured transform, a random augmentation: the draw flip mirrors
\* the x axis of its argument
apply_transforms(x, flip) ==
    CHOOSE r \in {IF flip /\ Len(a.shape) >= 2
                  THEN [shape |-> a.shape,
                        at |-> [p \in DOMAIN a.at |->
                                   a.at[[p EXCEPT ![2] = a.shape[2] - 1 - p[2]]]]]
                  ELSE a : a \in {x}} : TRUE

\* np.pad(target, ((w0, w0), (w1, w1), (w2, w2)), 'constant'): the three
\* pairs fit an array of three axes only, and no width may be negative
np_pad(target, w) ==
    CHOOSE r \in
        {IF Len(a.shape) # Len(w) \/ \E i \in DOMAIN w : w[i] < 0
         THEN [raised |-> "ValueError", value |-> NoData]
         ELSE LET shape == [i \in DOMAIN w |-> a.shape[i] + 2 * w[i]]
              IN  [raised |-> "",
                   value |-> [shape |-> shape,
                              at |-> [p \in IndexN(shape) |->
                                         IF \A i \in DOMAIN w :
                                               w[i] <= p[i] /\ p[i] < w[i] + a.shape[i]
                                         THEN a.at[[i \in DOMAIN w |-> p[i] - w[i]]]
                                         ELSE <<0, 1>>]]] : a \in {target}} : TRUE

\* pad, lines 350-355
pad(target) ==
    np_pad(target, [i \in 1..3 |-> (input_shape[i] - output_shape[i]) \div 2])

\* a read of get_ordered_sample: through wkw_read_cached when a cache is on
\* (lines 251-254, 279-282); reads lists what was read, and where
read_window(source_idx, source_type, wkw_bbox) ==
    LET source == data_sources[source_idx + 1]
        wkw_path == IF source_type = "input" THEN source.input_path ELSE source.target_path
        read(tier) == [tier |-> tier, source_idx |-> source_idx, source_type |-> source_type,
                       wkw_path |-> wkw_path, wkw_bbox |-> wkw_bbox]
    IN  IF cache_RAM \/ cache_HDD
        THEN LET r == wkw_read_cached(source_idx, source_type, wkw_bbox)
             IN  [raised |-> r.raised, data |-> r.data,
                  reads |-> [i \in DOMAIN r.reads |-> read(r.reads[i])]]
        ELSE [raised |-> "", data |-> wkw_read(wkw_store[wkw_path], wkw_bbox),
              reads |-> <<read("source")>>]

\* sample_idx in a python list
in_list(x, l) == \E i \in DOMAIN l : l[i] = x

\* the test of line 295 without its flag
transform_target_again(binary, inputSameAsOutput) ==
    ~binary /\ transforms # None

\* lines 287-296: the target goes through the transform
transform_target(binary, inputSameAsOutput) ==
    ~binary /\ transforms # None /\ ~inputSameAsOutput

\* lines 244-248, 265, 273 and 295: the source and the windows of a sample
\* and the tests on them
sample_header(sample_idx, bi, bbox_target) ==
    [sample_idx |-> sample_idx, source_idx |-> bi[1],
     bbox_input |-> bi[2], bbox_target |-> bbox_target,
     binary |-> data_sources[bi[1] + 1].target_binary,
     inputSameAsOutput |->
         /\ ~data_sources[bi[1] + 1].target_binary
         /\ data_sources[bi[1] + 1].input_path = data_sources[bi[1] + 1].target_path
         /\ bi[2] = bbox_target,
     aug_input |-> transforms # None /\ in_list(sample_idx, data_train_inds),
     aug_target |->
         transform_target(data_sources[bi[1] + 1].target_binary,
                          /\ ~data_sources[bi[1] + 1].target_binary
                          /\ data_sources[bi[1] + 1].input_path = data_sources[bi[1] + 1].target_path
                          /\ bi[2] = bbox_target)]

\* a normalisation that only the first sample of the process receives
normalize_once(x, source) ==
    IF normalize /\ first_sample = None
    THEN normalize_data(x, source.input_mean, source.input_std)
    ELSE x

\* lines 256-258
normalize_if(x, source) ==
    IF normalize THEN normalize_data(x, source.input_mean, source.input_std) ELSE x

\* lines 265-266 and 295-296 once their tests are made
transform_if(x, aug, flip) == IF aug THEN apply_transforms(x, flip) ELSE x

\* lines 256-266: the input from the voxels read
input_array(h, data, flip_input) ==
    transform_if(squeeze_depth(normalize_if(from_wkw(data), data_sources[h.source_idx + 1]),
                               input_shape),
                 h.aug_input, flip_input)

\* lines 270-282: the read of the target, if there is one
target_read(h) ==
    IF h.binary \/ h.inputSameAsOutput
    THEN [raised |-> "", data |-> NoData, reads |-> <<>>]
    ELSE read_window(h.source_idx, "target", h.bbox_target)

\* lines 270-282: the target before padding
target_array(h, input_, data) ==
    IF h.binary
    THEN [shape |-> <<>>,
          at |-> [p \in {<<>>} |-> <<data_sources[h.source_idx + 1].target_class, 1>>]]
    ELSE IF h.inputSameAsOutput THEN input_
    ELSE from_wkw(data)

\* lines 284-285
pad_if(target) == IF pad_target THEN pad(target) ELSE [raised |-> "", value |-> target]

\* lines 287-296
target_final(h, value, flip_target) ==
    transform_if(IF h.binary THEN value ELSE squeeze_depth(value, output_shape),
                 h.aug_target, flip_target)

\* line 298, or the exception that ended the call
sample_result(h, rin, input_, rtg, padded, flip_target) ==
    LET raised == IF rin.raised # "" THEN rin.raised
                  ELSE IF rtg.raised # "" THEN rtg.raised
                  ELSE padded.raised
    IN  [op |-> "get_ordered_sample", sample_idx |-> h.sample_idx, source_idx |-> h.source_idx,
         bbox_input |-> h.bbox_input, bbox_target |-> h.bbox_target,
         inputSameAsOutput |-> h.inputSameAsOutput, raised |-> raised,
         input |-> IF raised = "" THEN input_ ELSE NoData,
         target |-> IF raised = "" THEN target_final(h, padded.value, flip_target) ELSE NoData,
         reads |-> IF rin.raised # "" THEN rin.reads ELSE rin.reads \o rtg.reads,
         transformed |-> IF rin.raised # "" THEN <<>>
                         ELSE (IF h.aug_input THEN <<"input">> ELSE <<>>) \o
                              (IF raised = "" /\ h.aug_target THEN <<"target">> ELSE <<>>)]

sample_with_arrays(h, rin, input_, rtg, flip_target) ==
    sample_result(h, rin, input_, rtg,
                  IF rin.raised # "" \/ rtg.raised # "" THEN [raised |-> "", value |-> NoData]
                  ELSE pad_if(target_array(h, input_, rtg.data)),
                  flip_target)

sample_with_input(h, rin, flip_input, flip_target) ==
    sample_with_arrays(h, rin,
                       IF rin.raised # "" THEN NoData ELSE input_array(h, rin.data, flip_input),
                       IF rin.raised # "" THEN [raised |-> "", data |-> NoData, reads |-> <<>>]
                       ELSE target_read(h),
                       flip_target)

sample_of(h, flip_input, flip_target) ==
    sample_with_input(h, read_window(h.source_idx, "input", h.bbox_input),
                      flip_input, flip_target)

\* get_ordered_sample, lines 240-298, with the draws of its two possible
\* calls of the transform: what it returns or raises, the reads it made and
\* the arrays it passed through the transform
get_ordered_sample(sample_idx, flip_input, flip_target) ==
    sample_of(sample_header(sample_idx, get_bbox_for_sample_idx(sample_idx, "input"),
                            get_bbox_for_sample_idx(sample_idx, "target")[2]),
              flip_input, flip_target)

----------------------------------------------------------------------------
(* The sparse result writer: write_output_to_cache, interpolate_sparse_cache *)
(* data_cache_output, a dict of dicts of dicts, is the sequence of its      *)
(* (path, bbox) entries in the order the loops of lines 332-333 visit them: *)
(* [wkw_path, wkw_bbox |-> str(bbox), labels |-> label -> (x, y, z) array]. *)

\* np.nan among the values of an output volume, which are >= 0
NaN == -1

\* np.full(shape, np.nan)
full_nan(shape) == [shape |-> shape, at |-> [p \in Index3(shape) |-> NaN]]

\* the position of the entry of (path, key) in the cache, 0 if there is none
entry_of(cache, wkw_path, key) ==
    IF \E i \in DOMAIN cache : cache[i].wkw_path = wkw_path /\ cache[i].wkw_bbox = key
    THEN CHOOSE i \in DOMAIN cache : cache[i].wkw_path = wkw_path /\ cache[i].wkw_bbox = key
    ELSE 0

\* lines 314-318: the dicts of the path and of the bbox are made when missing;
\* a new bbox of a known path comes after the bboxes that path has
with_entry(cache, wkw_path, key) ==
    IF entry_of(cache, wkw_path, key) # 0 THEN cache
    ELSE LET same == {i \in DOMAIN cache : cache[i].wkw_path = wkw_path}
             at == IF same = {} THEN Len(cache) + 1
                   ELSE 1 + (CHOOSE i \in same : \A j \in same : j <= i)
             new == [wkw_path |-> wkw_path, wkw_bbox |-> key, labels |-> <<>>]
         IN  [k \in 1..(Len(cache) + 1) |->
                 IF k < at THEN cache[k] ELSE IF k = at THEN new ELSE cache[k - 1]]

\* lines 320-322 with the allocation on every write
with_volume_anew(cache, wkw_path, wkw_bbox, output_label) ==
    LET c == with_entry(cache, wkw_path, str(wkw_bbox))
        i == entry_of(c, wkw_path, str(wkw_bbox))
    IN  [c EXCEPT ![i].labels = dict_set(@, output_label,
                                         full_nan(<<wkw_bbox[4], wkw_bbox[5], wkw_bbox[6]>>))]

\* lines 314-322: the volume of (path, bbox, label), NaN all over when new
with_volume(cache, wkw_path, wkw_bbox, output_label) ==
    LET c == with_entry(cache, wkw_path, str(wkw_bbox))
        i == entry_of(c, wkw_path, str(wkw_bbox))
    IN  IF output_label \in DOMAIN c[i].labels THEN c
        ELSE [c EXCEPT ![i].labels = dict_set(@, output_label,
                                              full_nan(<<wkw_bbox[4], wkw_bbox[5], wkw_bbox[6]>>))]

\* data[m0:M0, m1:M1, m2:M2] = value: numpy broadcasts value to the region
\* the slices select, or raises ValueError
set_region(data, data_min, data_max, value) ==
    LET sl == [a \in 1..3 |-> np_slice(data_min[a], data_max[a], data.shape[a])]
        fits == \A a \in 1..3 : value.shape[a] = sl[a][2] \/ value.shape[a] = 1
    IN  IF ~fits THEN [raised |-> "ValueError", data |-> data]
        ELSE [raised |-> "",
              data |-> [shape |-> data.shape,
                        at |-> [p \in DOMAIN data.at |->
                                   IF \A a \in 1..3 : sl[a][1] <= p[a] /\ p[a] < sl[a][1] + sl[a][2]
                                   THEN value.at[[a \in 1..3 |->
                                                     IF value.shape[a] = 1 THEN 0
                                                     ELSE p[a] - sl[a][1]]]
                                   ELSE data.at[p]]]]

\* one round of the loop of lines 308-329
write_output(cache, output, sample_idx, output_label) ==
    LET b == get_bbox_for_sample_idx(sample_idx, "target")
        bbox == b[2]
        wkw_path == data_sources[b[1] + 1].input_path
        wkw_bbox == data_sources[b[1] + 1].input_bbox
        c == with_volume(cache, wkw_path, wkw_bbox, output_label)
        i == entry_of(c, wkw_path, str(wkw_bbox))
        data_min == [a \in 1..3 |-> bbox[a] - wkw_bbox[a]]
        data_max == [a \in 1..3 |-> data_min[a] + bbox[3 + a]]
        r == set_region(c[i].labels[output_label], data_min, data_max, output)
    IN  [raised |-> r.raised,
         cache |-> [c EXCEPT ![i].labels = dict_set(@, output_label, r.data)]]

\* write_output_to_cache from round k on
RECURSIVE write_outputs(_, _, _, _, _)
write_outputs(cache, outputs, sample_inds, output_label, k) ==
    IF k > Len(sample_inds) THEN [raised |-> "", cache |-> cache]
    ELSE LET r == write_output(cache, outputs[k], sample_inds[k], output_label)
         IN  IF r.raised # "" THEN r
             ELSE write_outputs(r.cache, outputs, sample_inds, output_label, k + 1)

\* np.argwhere(~np.isnan(cache[:, :, z])): the written points of a slice
points_of(cache, z) ==
    {<<p[1], p[2]>> : p \in {q \in DOMAIN cache.at : q[3] = z /\ cache.at[q] # NaN}}

\* the place of a point in the row-major order of np.argwhere
row_major(cache, pt) == pt[1] * cache.shape[2] + pt[2]

dist2(a, b) == (a[1] - b[1]) * (a[1] - b[1]) + (a[2] - b[2]) * (a[2] - b[2])

\* the written point whose value the grid point g takes, were it the first
\* or last of all written points instead of a nearest one
any_point(cache, z, g, last) ==
    LET pts == points_of(cache, z)
    IN  CHOOSE a \in pts : \A b \in pts :
            IF last THEN row_major(cache, b) <= row_major(cache, a)
                    ELSE row_major(cache, a) <= row_major(cache, b)

\* griddata(points, values, grid, method='nearest'): the written point whose
\* value the grid point g takes; of several nearest ones the k-d tree returns
\* one, here the first or the last in the order of points
nearest_point(cache, z, g, last) ==
    LET pts == points_of(cache, z)
        best == {a \in pts : \A b \in pts : dist2(a, g) <= dist2(b, g)}
    IN  CHOOSE a \in best : \A b \in best :
            IF last THEN row_major(cache, b) <= row_major(cache, a)
                    ELSE row_major(cache, a) <= row_major(cache, b)

\* lines 336-341 for a slice with written points
densify_slice(cache, z, last) ==
    [shape |-> cache.shape,
     at |-> [p \in DOMAIN cache.at |->
                IF p[3] = z
                THEN LET a == nearest_point(cache, z, <<p[1], p[2]>>, last)
                     IN  cache.at[<<a[1], a[2], z>>]
                ELSE cache.at[p]]]

\* interpolate_sparse_cache(output_label, 'nearest') from slice z of entry i
\* on.  An entry without the label raises KeyError (line 334).  For a slice
\* without written points griddata raises IndexError or returns NaN all
\* over, as the scipy at hand does.
RECURSIVE interpolate_from(_, _, _, _, _, _)
interpolate_from(cache, output_label, i, z, last, empty_raises) ==
    IF i > Len(cache) THEN [raised |-> "", cache |-> cache]
    ELSE IF output_label \notin DOMAIN cache[i].labels THEN [raised |-> "KeyError", cache |-> cache]
    ELSE LET volume == cache[i].labels[output_label]
         IN  IF z >= volume.shape[3]
             THEN interpolate_from(cache, output_label, i + 1, 0, last, empty_raises)
             ELSE IF points_of(volume, z) = {}
             THEN IF empty_raises THEN [raised |-> "IndexError", cache |-> cache]
                  ELSE interpolate_from(cache, output_label, i, z + 1, last, empty_raises)
             ELSE interpolate_from(
                      [cache EXCEPT ![i].labels =
                          dict_set(@, output_label, densify_slice(volume, z, last))],
                      output_label, i, z + 1, last, empty_raises)

----------------------------------------------------------------------------
(* Inputs of the constructor *)

\* the input_bbox values the data sources are drawn from
BBoxPool == {<<0, 0, 0, 3, 2, 1>>, <<1, 2, 3, 2, 3, 2>>, <<5, 0, 1, 1, 1, 2>>}

\* DataSource(id, input_path, input_bbox, target_path, target_bbox,
\* target_class, target_binary); input_mean and input_std are left out
DataSource(id, input_path, input_bbox, target_path, target_bbox, target_class, target_binary) ==
    [id |-> id, input_path |-> input_path, input_bbox |-> input_bbox,
     target_path |-> target_path, target_bbox |-> target_bbox,
     target_class |-> target_class, target_binary |-> target_binary]

\* lists of 1..n sources over the given boxes, with ids "1", "2", ...
SourceLists(boxes, n) ==
    {[i \in DOMAIN f |-> DataSource(ToString(i), "/a", f[i], "/a", f[i], 0, FALSE)] :
        f \in UNION {[1..k -> boxes] : k \in 1..n}}

Shapes == {<<a, b, c>> : a \in 1..MaxWindow, b \in 1..MaxWindow, c \in 1..2}
\* stride=None is the empty tuple here
Strides == {<<a, b, 1>> : a \in 1..MaxStride, b \in 1..MaxStride} \cup {<<>>}

\* __init__, lines 118-121
init_stride(stride_arg, target_shape) ==
    IF stride_arg = <<>> THEN target_shape ELSE stride_arg

\* the state of __init__ after its field assignments, before get_data_meshes
\* (an out_shapes entry <<>> stands for target_shape = input_shape)
InitFields(sources, in_shapes, out_shapes, strides, splits, cache_flags, stores, hdds) ==
    /\ data_sources \in sources
    /\ input_shape \in in_shapes
    /\ \E o \in out_shapes : output_shape = IF o = <<>> THEN input_shape ELSE o
    /\ \E s \in strides : stride = init_stride(s, output_shape)
    /\ data_split \in splits
    /\ \E c \in cache_flags : cache_RAM = c[1] /\ cache_HDD = c[2]
    /\ wkw_store \in stores
    /\ hdd_cache \in hdds
    /\ data_cache_input = <<>>
    /\ data_meshes = <<>>
    /\ data_inds_min = <<>>
    /\ data_inds_max = <<>>
    /\ data_train_inds = <<>>
    /\ data_validation_inds = <<>>
    /\ data_test_inds = <<>>
    /\ fill_pos = 0

InitWith(sources, in_shapes, out_shapes, strides, splits, cache_flags, stores, hdds) ==
    /\ InitFields(sources, in_shapes, out_shapes, strides, splits, cache_flags, stores, hdds)
    /\ json_files = <<>>
    /\ pc = "new"
    /\ ret = [op |-> "__init__"]

\* the other arguments of __init__ (lines 123-125, 131); transforms=None is None
InitOptions(normalizes, callables, pad_targets) ==
    /\ normalize \in normalizes
    /\ transforms \in callables
    /\ pad_target \in pad_targets
    /\ data_cache_output = <<>>
    /\ n_writes = 0
    /\ workers = <<>>
    /\ output_wkw = <<>>
    /\ first_sample = None
    /\ other_sample = FALSE
    /\ first_split = None
    /\ memo_source = <<>>
    /\ memo_target = <<>>
    /\ rng_pos = 0
    /\ rng_stream = <<>>

\* normalize, transforms and pad_target do not act in the constructor
InitPlain == InitOptions({TRUE}, {None}, {FALSE})

OutShapes == {<<>>, <<1, 1, 1>>}

Init ==
    /\ InitWith(SourceLists(BBoxPool, MaxSources), Shapes, OutShapes, Strides,
                {None}, {<<FALSE, FALSE>>}, {<<>>}, {<<>>})
    /\ InitPlain

\* the sets of the lists of length <= n over S
Seqs(S, n) == UNION {[1..k -> S] : k \in 0..n}

\* fraction mode: DataSplit(train=a/FracDen, validation=b/FracDen, test=c/FracDen)
FractionSplits ==
    {[kind |-> "float", train |-> a, validation |-> b, test |-> c] :
        a \in 0..FracDen, b \in 0..FracDen, c \in 0..FracDen}

\* strata mode: DataSplit(train=[ids], validation=[ids], test=[ids]); "x" is
\* the id of no source
StrataIds == {ToString(i) : i \in 1..MaxSources} \cup {"x"}
StrataSplits ==
    {[kind |-> "list", train |-> t, validation |-> v, test |-> e] :
        t \in Seqs(StrataIds, MaxIdList), v \in Seqs(StrataIds, 1), e \in Seqs(StrataIds, 1)}

UnitShape == {<<1, 1, 1>>}

InitFraction ==
    /\ InitWith(SourceLists({<<0, 0, 0, n, 1, 1>> : n \in 1..MaxShuffleLen}, 1),
                {<<1, 1, 1>>}, UnitShape, {<<>>}, FractionSplits,
                {<<FALSE, FALSE>>}, {<<>>}, {<<>>})
    /\ InitPlain

InitStrata ==
    /\ InitWith(SourceLists({<<0, 0, 0, 2, 1, 1>>, <<3, 0, 0, 1, 3, 1>>}, MaxSources),
                {<<1, 1, 1>>}, UnitShape, {<<>>}, StrataSplits,
                {<<FALSE, FALSE>>}, {<<>>}, {<<>>})
    /\ InitPlain

InitSplit == InitFraction \/ InitStrata

\* the datasets of the store: the voxels of VolumeBox hold values in
\* 0..VoxelValues-1 that differ between neighbours
Paths == {"/a", "/b"}
VolumeBox == <<0, 0, 0, 2, 2, 2>>
StoreContents ==
    {[path \in Paths |->
        [v \in BoxVoxels(VolumeBox) |->
            (v[1] + 2 * v[2] + 3 * v[3] + salt + (IF path = "/b" THEN 1 ELSE 0)) % VoxelValues]] :
        salt \in 0..(VoxelValues - 1)}

\* the data sources of the cached datasets
CacheSourceLists ==
    {<<DataSource("1", "/a", <<0, 0, 0, 2, 2, 2>>, "/a", <<0, 0, 0, 2, 2, 2>>, 0, FALSE)>>,
     <<DataSource("1", "/a", <<0, 0, 0, 2, 2, 1>>, "/b", <<0, 0, 0, 2, 2, 1>>, 0, FALSE)>>,
     <<DataSource("1", "/a", <<0, 0, 0, 1, 2, 2>>, "/a", <<0, 0, 0, 1, 2, 2>>, 0, FALSE),
       DataSource("2", "/a", <<1, 0, 0, 1, 2, 2>>, "/b", <<1, 0, 0, 1, 2, 2>>, 0, FALSE)>>}

CacheShapes == {<<1, 1, 1>>, <<1, 2, 1>>, <<1, 1, 2>>}

\* what earlier runs left below cache_HDD_root: no dataset, or a dataset that
\* holds the store's values on the voxels written so far
NoCache == [dir |-> FALSE, header |-> FALSE, data |-> <<>>]
CachedVoxels ==
    {{}, BoxVoxels(VolumeBox), BoxVoxels(<<0, 0, 0, 2, 2, 1>>),
     BoxVoxels(<<0, 0, 0, 1, 1, 1>>) \cup BoxVoxels(<<1, 1, 1, 1, 1, 1>>)}
HddCaches(store) ==
    {[path \in Paths |-> IF path = "/a" THEN a ELSE b] :
        a \in {NoCache} \cup {[dir |-> TRUE, header |-> TRUE,
                               data |-> [v \in m |-> store["/a"][v]]] : m \in CachedVoxels},
        b \in {NoCache, [dir |-> TRUE, header |-> TRUE, data |-> store["/b"]]}}

InitCache ==
    /\ InitWith(CacheSourceLists, CacheShapes, OutShapes, {<<1, 1, 1>>}, {None},
                {<<TRUE, FALSE>>, <<FALSE, TRUE>>, <<TRUE, TRUE>>},
                StoreContents, UNION {HddCaches(store) : store \in StoreContents})
    /\ hdd_cache \in HddCaches(wkw_store)
    /\ InitPlain

\* the datasets with samples to assemble: one source that is its own target,
\* one with its target on another path, one with a scalar label
SampleBox == <<0, 0, 0, 3, 1, 2>>
SampleSource(id, target_path, target_class, target_binary) ==
    [id |-> id, input_path |-> "/a", input_bbox |-> SampleBox, input_mean |-> 1,
     input_std |-> 2, target_path |-> target_path, target_bbox |-> SampleBox,
     target_class |-> target_class, target_binary |-> target_binary]
SampleSourceLists ==
    {<<SampleSource("1", "/a", 0, FALSE)>>,
     <<SampleSource("1", "/b", 0, FALSE)>>,
     <<SampleSource("1", "/b", 1, TRUE)>>}
SampleShapes == {<<1, 1, 1>>, <<2, 1, 1>>, <<3, 1, 1>>, <<1, 1, 2>>}
SampleSplits ==
    {None,
     [kind |-> "list", train |-> <<"1">>, validation |-> <<>>, test |-> <<>>],
     [kind |-> "list", train |-> <<>>, validation |-> <<"1">>, test |-> <<>>]}
SampleStores ==
    {[path \in Paths |->
        [v \in BoxVoxels(SampleBox) |->
            (v[1] + 2 * v[2] + 3 * v[3] + salt + (IF path = "/b" THEN 1 ELSE 0)) % VoxelValues]] :
        salt \in {1}}
Callable == [kind |-> "callable"]

InitSample ==
    /\ InitWith(SampleSourceLists, SampleShapes, OutShapes, {<<1, 1, 1>>}, SampleSplits,
                {<<FALSE, FALSE>>, <<TRUE, FALSE>>, <<FALSE, TRUE>>, <<TRUE, TRUE>>},
                SampleStores, {[path \in Paths |-> NoCache]})
    /\ InitOptions(BOOLEAN, {None, Callable}, BOOLEAN)

\* the datasets whose outputs are collected: one source, two sources with
\* two bboxes of one path, two sources with one bbox on two paths
WriterSource(id, input_path, input_bbox) ==
    DataSource(id, input_path, input_bbox, input_path, input_bbox, 0, FALSE)
WriterSourceLists ==
    {<<WriterSource("1", "/a", <<1, 2, 0, 3, 1, 1>>)>>,
     <<WriterSource("1", "/a", <<1, 2, 0, 2, 1, 1>>), WriterSource("2", "/a", <<0, 0, 0, 1, 1, 2>>)>>,
     <<WriterSource("1", "/a", <<1, 2, 0, 1, 2, 1>>), WriterSource("2", "/b", <<1, 2, 0, 1, 2, 1>>)>>}
WriterShapes == {<<1, 1, 1>>, <<2, 1, 1>>}
Labels == {"p", "q"}

InitWriter ==
    /\ InitWith(WriterSourceLists, WriterShapes, OutShapes, {<<1, 1, 1>>}, {None},
                {<<FALSE, FALSE>>}, {<<>>}, {<<>>})
    /\ InitPlain

\* the datasets that concurrent callers of fill_cache fill: one source, or
\* two sources with two bboxes of one path
WorkerSourceLists ==
    {<<WriterSource("1", "/a", <<0, 0, 0, 3, 1, 1>>)>>,
     <<WriterSource("1", "/a", <<0, 0, 0, 3, 1, 1>>), WriterSource("2", "/a", <<1, 0, 0, 1, 1, 1>>)>>}
WorkerStores ==
    {[path \in Paths |-> [v \in BoxVoxels(<<0, 0, 0, 3, 1, 1>>) |-> 1 + ((v[1] + salt) % 3)]] :
        salt \in {0}}

\* below cache_HDD_root: nothing, the bare directory, or a dataset with the
\* store's values on the voxels that earlier runs cached
WorkerHddCaches(store) ==
    {[path \in Paths |-> IF path = "/a" THEN a ELSE NoCache] :
        a \in {NoCache, [dir |-> TRUE, header |-> FALSE, data |-> <<>>]} \cup
              {[dir |-> TRUE, header |-> TRUE, data |-> [v \in m |-> store["/a"][v]]] :
                  m \in {BoxVoxels(<<0, 0, 0, 3, 1, 1>>),
                         BoxVoxels(<<0, 0, 0, 1, 1, 1>>) \cup BoxVoxels(<<2, 0, 0, 1, 1, 1>>)}}}

InitWorkers ==
    /\ InitWith(WorkerSourceLists, {<<1, 1, 1>>}, {<<>>}, {<<1, 1, 1>>}, {None},
                {<<FALSE, FALSE>>, <<TRUE, FALSE>>, <<FALSE, TRUE>>, <<TRUE, TRUE>>},
                WorkerStores, UNION {WorkerHddCaches(store) : store \in WorkerStores})
    /\ hdd_cache \in WorkerHddCaches(wkw_store)
    /\ InitPlain

----------------------------------------------------------------------------
(* __init__, step by step *)

\* lines 143-147: what __init__ does after get_data_ind_ranges
after_ranges ==
    IF data_split.kind # "None" THEN "split"
    ELSE IF cache_RAM \/ cache_HDD THEN "fill" ELSE "ready"

get_data_meshes ==
    /\ pc = "new"
    /\ data_meshes' = [i \in 1..Len(data_sources) |-> get_data_mesh(i - 1)]
    /\ pc' = "meshes"
    /\ ret' = [op |-> "get_data_meshes"]
    /\ UNCHANGED <<config_vars, registry_vars, memo_vars, more_vars, proc_vars, rng_vars, data_inds_min, data_inds_max, split_vars, cache_vars>>

get_data_ind_ranges ==
    /\ pc = "meshes"
    /\ LET r == ind_ranges(data_meshes, Len(data_sources))
       IN  /\ data_inds_min' = r.min
           /\ data_inds_max' = r.max
    /\ pc' = after_ranges
    /\ ret' = [op |-> "get_data_ind_ranges"]
    /\ UNCHANGED <<config_vars, registry_vars, memo_vars, more_vars, proc_vars, rng_vars, data_meshes, split_vars, cache_vars>>

\* lines 146-147: what __init__ does after get_data_ind_splits
after_split == IF cache_RAM \/ cache_HDD THEN "fill" ELSE "ready"

\* lines 236-238, or the exception leaving __init__
finish_split(r) ==
    /\ ret' = [op |-> "get_data_ind_splits", raised |-> r.raised]
    /\ IF r.raised # ""
       THEN /\ pc' = "raised"
            /\ UNCHANGED split_vars
       ELSE /\ pc' = after_split
            /\ data_train_inds' = r.train
            /\ data_validation_inds' = r.validation
            /\ data_test_inds' = r.test
    /\ UNCHANGED <<config_vars, registry_vars, memo_vars, more_vars, proc_vars, grid_vars, cache_vars>>

\* the orders of 0..n-1
permutations(n) ==
    {p \in [1..n -> 0..(n - 1)] : \A i, j \in 1..n : i # j => p[i] # p[j]}

\* np.random.permutation(data_inds_all) on the module's generator, seeded by
\* np.random.seed(1337) at import (line 19): what the generator yields is a
\* function of the seed and of what was drawn since, so a draw seen before at
\* this position is repeated and a position not seen yet may yield any order
np_random_permutation(n) ==
    IF rng_pos < Len(rng_stream) THEN {rng_stream[rng_pos + 1]} ELSE permutations(n)

get_data_ind_splits_fraction ==
    /\ pc = "split"
    /\ data_split.kind = "float"
    /\ \E data_inds_all_rand \in np_random_permutation(len_self) :
          /\ finish_split(fraction_split(data_inds_all_rand))
          /\ rng_stream' = IF rng_pos < Len(rng_stream) THEN rng_stream
                           ELSE Append(rng_stream, data_inds_all_rand)
    /\ rng_pos' = rng_pos + 1

get_data_ind_splits_strata ==
    /\ pc = "split"
    /\ data_split.kind = "list"
    /\ finish_split(strata_split)
    /\ UNCHANGED rng_vars

\* one call of fill_cache by the loop of fill_caches (lines 357-362): call
\* 2i is for the input of source i, call 2i+1 for its target
fill_cache ==
    /\ pc = "fill"
    /\ LET data_source == data_sources[(fill_pos \div 2) + 1]
           wkw_path == IF fill_pos % 2 = 0 THEN data_source.input_path
                                           ELSE data_source.target_path
           wkw_bbox == IF fill_pos % 2 = 0 THEN data_source.input_bbox
                                           ELSE data_source.target_bbox
           r == fill_cache_data(wkw_path, wkw_bbox)
       IN  /\ data_cache_input' = fill_cache_RAM(wkw_path, wkw_bbox, r.data)
           /\ hdd_cache' = fill_cache_HDD(wkw_path, wkw_bbox, r.data)
           /\ ret' = [op |-> "fill_cache", source_idx |-> fill_pos \div 2,
                      source_type |-> IF fill_pos % 2 = 0 THEN "input" ELSE "target",
                      wkw_path |-> wkw_path, wkw_bbox |-> wkw_bbox,
                      header_existed |-> hdd_cache[wkw_path].header,
                      hdd_data |-> r.hdd_data, reads |-> r.reads, data |-> r.data]
    /\ fill_pos' = fill_pos + 1
    /\ pc' = IF fill_pos + 1 = 2 * Len(data_sources) THEN "ready" ELSE "fill"
    /\ UNCHANGED <<config_vars, registry_vars, memo_vars, more_vars, proc_vars, rng_vars, grid_vars, split_vars>>

----------------------------------------------------------------------------
(* Calls on the constructed dataset *)

\* wkw_read_cached for a window of get_bbox_for_sample_idx, as
\* get_ordered_sample calls it (lines 250-252, 269, 279-280)
call_wkw_read_cached ==
    /\ pc = "ready"
    /\ cache_RAM \/ cache_HDD
    /\ \E sample_idx \in 0..(len_self - 1), source_type \in {"input", "target"} :
          LET b == get_bbox_for_sample_idx(sample_idx, source_type)
              source == data_sources[b[1] + 1]
              r == wkw_read_cached(b[1], source_type, b[2])
          IN  ret' = [op |-> "wkw_read_cached", source_idx |-> b[1],
                      source_type |-> source_type, wkw_bbox |-> b[2],
                      wkw_path |-> IF source_type = "input" THEN source.input_path
                                                            ELSE source.target_path,
                      raised |-> r.raised, data |-> r.data, reads |-> r.reads]
    /\ UNCHANGED <<config_vars, registry_vars, memo_vars, more_vars, proc_vars, rng_vars, grid_vars, split_vars, cache_vars, pc>>

call_get_bbox_for_sample_idx ==
    /\ pc = "ready"
    /\ \E sample_idx \in 0..(len_self - 1), sample_type \in {"input", "target"} :
          ret' = [op |-> "get_bbox_for_sample_idx", sample_idx |-> sample_idx,
                  sample_type |-> sample_type,
                  value |-> get_bbox_for_sample_idx(sample_idx, sample_type)]
    /\ UNCHANGED <<config_vars, registry_vars, memo_vars, more_vars, proc_vars, rng_vars, grid_vars, split_vars, cache_vars, pc>>

call_get_source_mesh_for_sample_idx ==
    /\ pc = "ready"
    /\ \E sample_idx \in 0..(len_self - 1) :
          ret' = [op |-> "get_source_mesh_for_sample_idx", sample_idx |-> sample_idx,
                  value |-> get_source_mesh_for_sample_idx(sample_idx)]
    /\ UNCHANGED <<config_vars, registry_vars, memo_vars, more_vars, proc_vars, rng_vars, grid_vars, split_vars, cache_vars, pc>>

\* the datasets with memoized lookups: sources with a class label
MemoSource(id, input_bbox, target_class) ==
    [id |-> id, input_path |-> "/a", input_bbox |-> input_bbox, input_mean |-> 1,
     input_std |-> 2, target_path |-> "/a", target_bbox |-> input_bbox,
     target_class |-> target_class, target_binary |-> TRUE]
MemoSourceLists ==
    {<<MemoSource("1", <<0, 0, 0, 2, 1, 1>>, a)>> : a \in {0, 1}}
        \cup {<<MemoSource("1", <<0, 0, 0, 2, 1, 1>>, a), MemoSource("2", <<3, 0, 0, 1, 1, 1>>, b)>> :
                 a \in {0, 1}, b \in {0, 1}}

InitMemo ==
    /\ InitWith(MemoSourceLists, {<<1, 1, 1>>}, {<<>>}, {<<1, 1, 1>>}, {None},
                {<<FALSE, FALSE>>}, {<<>>}, {<<>>})
    /\ InitPlain

\* the frame of a call that only looks up
lookup_frame ==
    UNCHANGED <<config_vars, registry_vars, more_vars, proc_vars, rng_vars, grid_vars, split_vars,
                cache_vars, pc>>

\* line 495
source_idx_of(sample_idx) ==
    argmax([i \in 1..Len(data_inds_max) |-> data_inds_max[i] >= sample_idx])

\* functools.lru_cache(maxsize=128), lines 492 and 498: the table a call
\* finds; no entry is evicted below 128 keys and none is ever cleared
lru_cache(table) == table

\* the memoized get_source_idx_from_sample_idx: the value and the table after
get_source_idx_from_sample_idx(sample_idx) ==
    IF sample_idx \in DOMAIN lru_cache(memo_source)
    THEN [value |-> lru_cache(memo_source)[sample_idx], hit |-> TRUE,
          table |-> lru_cache(memo_source)]
    ELSE [value |-> source_idx_of(sample_idx), hit |-> FALSE,
          table |-> dict_set(lru_cache(memo_source), sample_idx, source_idx_of(sample_idx))]

call_get_source_idx_from_sample_idx ==
    /\ pc = "ready"
    /\ \E sample_idx \in 0..(len_self - 1) :
          /\ ret' = [op |-> "get_source_idx_from_sample_idx", sample_idx |-> sample_idx,
                     value |-> get_source_idx_from_sample_idx(sample_idx).value,
                     hit |-> get_source_idx_from_sample_idx(sample_idx).hit]
          /\ memo_source' = get_source_idx_from_sample_idx(sample_idx).table
    /\ UNCHANGED memo_target
    /\ lookup_frame

\* the memoized get_target_from_sample_idx, lines 498-503: a miss calls the
\* memoized source lookup and reads the class of that source
call_get_target_from_sample_idx ==
    /\ pc = "ready"
    /\ \E sample_idx \in 0..(len_self - 1) :
          IF sample_idx \in DOMAIN lru_cache(memo_target)
          THEN /\ ret' = [op |-> "get_target_from_sample_idx", sample_idx |-> sample_idx,
                          value |-> lru_cache(memo_target)[sample_idx], hit |-> TRUE]
               /\ memo_target' = lru_cache(memo_target)
               /\ memo_source' = lru_cache(memo_source)
          ELSE /\ ret' = [op |-> "get_target_from_sample_idx", sample_idx |-> sample_idx,
                          value |-> data_sources[get_source_idx_from_sample_idx(sample_idx).value + 1].target_class,
                          hit |-> FALSE]
               /\ memo_target' =
                     dict_set(lru_cache(memo_target), sample_idx,
                              data_sources[get_source_idx_from_sample_idx(sample_idx).value + 1].target_class)
               /\ memo_source' = get_source_idx_from_sample_idx(sample_idx).table
    /\ lookup_frame

\* what get_datasource_stats (lines 508-519) can return for the samples it
\* draws: a mean and a std
StatValues == {<<3, 1>>, <<2, 2>>}

\* update_datasource_stats, lines 524-528; the draws of
\* np.random.random_integers (line 509) move the module's generator on
update_datasource_stats ==
    /\ pc = "ready"
    /\ rng_pos < MaxStatUpdates
    /\ \E data_source_idx \in 0..(Len(data_sources) - 1), stats \in StatValues :
          /\ rng_pos < Len(rng_stream) => stats = rng_stream[rng_pos + 1]
          /\ data_sources' = [data_sources EXCEPT ![data_source_idx + 1] =
                                  [@ EXCEPT !.input_mean = stats[1], !.input_std = stats[2]]]
          /\ rng_stream' = IF rng_pos < Len(rng_stream) THEN rng_stream
                           ELSE Append(rng_stream, stats)
          /\ ret' = [op |-> "update_datasource_stats", data_source_idx |-> data_source_idx]
    /\ rng_pos' = rng_pos + 1
    /\ UNCHANGED <<input_shape, output_shape, stride, data_split, cache_RAM, cache_HDD,
                   wkw_store, normalize, transforms, pad_target>>
    /\ UNCHANGED <<registry_vars, memo_vars, more_vars, proc_vars, grid_vars, split_vars,
                   cache_vars, pc>>

\* the caller replaces an entry of the list it gave to __init__, which
\* line 115 keeps as self.data_sources: the source gets another class label
replace_data_source ==
    /\ pc = "ready"
    /\ \E data_source_idx \in 0..(Len(data_sources) - 1), target_class \in {0, 1} :
          /\ data_sources' = [data_sources EXCEPT ![data_source_idx + 1] =
                                  [@ EXCEPT !.target_class = target_class]]
          /\ ret' = [op |-> "replace_data_source", data_source_idx |-> data_source_idx]
    /\ UNCHANGED <<input_shape, output_shape, stride, data_split, cache_RAM, cache_HDD,
                   wkw_store, normalize, transforms, pad_target>>
    /\ UNCHANGED <<registry_vars, memo_vars, more_vars, proc_vars, rng_vars, grid_vars,
                   split_vars, cache_vars, pc>>

NextMemo ==
    \/ get_data_meshes
    \/ get_data_ind_ranges
    \/ call_get_source_idx_from_sample_idx
    \/ call_get_target_from_sample_idx
    \/ update_datasource_stats
    \/ replace_data_source

SpecMemo == InitMemo /\ [][NextMemo]_vars

\* range(stop)
py_range(stop) == 0..(stop - 1)

\* random.sample(population, 1): the lists of one element it can return, none
\* when it raises ValueError for an empty population
random_sample_1(population) == {<<k>> : k \in population}

\* int(sample_idx) of line 485, reached through get_ordered_sample and
\* get_bbox_for_sample_idx (lines 250, 462): a list is a TypeError
int_of_list(sample_idx) == "TypeError"

\* get_random_sample, lines 343-348
call_get_random_sample ==
    /\ pc = "ready"
    /\ IF random_sample_1(py_range(data_inds_max[Len(data_inds_max)])) = {}
       THEN ret' = [op |-> "get_random_sample",
                    population |-> py_range(data_inds_max[Len(data_inds_max)]),
                    sample_idx |-> <<>>, raised |-> "ValueError"]
       ELSE \E sample_idx \in random_sample_1(py_range(data_inds_max[Len(data_inds_max)])) :
               ret' = [op |-> "get_random_sample",
                       population |-> py_range(data_inds_max[Len(data_inds_max)]),
                       sample_idx |-> sample_idx, raised |-> int_of_list(sample_idx)]
    /\ UNCHANGED <<config_vars, registry_vars, memo_vars, more_vars, proc_vars, rng_vars, grid_vars, split_vars, cache_vars, pc>>

Next ==
    \/ get_data_meshes
    \/ get_data_ind_ranges
    \/ call_get_bbox_for_sample_idx
    \/ call_get_source_mesh_for_sample_idx

Spec == Init /\ [][Next]_vars

\* the constructor and get_random_sample
NextRandom ==
    \/ get_data_meshes
    \/ get_data_ind_ranges
    \/ call_get_random_sample

SpecRandom == Init /\ [][NextRandom]_vars

\* the constructor with a data_split
NextSplit ==
    \/ get_data_meshes
    \/ get_data_ind_ranges
    \/ get_data_ind_splits_fraction
    \/ get_data_ind_splits_strata

SpecSplit == InitSplit /\ [][NextSplit]_vars

\* WkwData(...) called once more with the arguments of the dataset just
\* built (lines 110-147 start again); the split sets of that dataset are
\* kept as history
new_dataset ==
    /\ pc = "ready"
    /\ first_split = None
    /\ first_split' = [train |-> data_train_inds, validation |-> data_validation_inds,
                       test |-> data_test_inds]
    /\ data_meshes' = <<>>
    /\ data_inds_min' = <<>>
    /\ data_inds_max' = <<>>
    /\ data_train_inds' = <<>>
    /\ data_validation_inds' = <<>>
    /\ data_test_inds' = <<>>
    /\ data_cache_input' = <<>>
    /\ fill_pos' = 0
    /\ pc' = "new"
    /\ UNCHANGED <<config_vars, registry_vars, memo_vars, more_vars, first_sample, other_sample, hdd_cache>>

\* the second dataset is built in the process that built the first: the
\* module was imported once, its generator goes on from where it is
build_again ==
    /\ new_dataset
    /\ ret' = [op |-> "__init__", process |-> "same"]
    /\ UNCHANGED rng_vars

\* the second dataset is built by another run of the program: the import
\* sets the seed again (line 19)
build_in_new_process ==
    /\ new_dataset
    /\ ret' = [op |-> "__init__", process |-> "new"]
    /\ rng_pos' = 0
    /\ UNCHANGED rng_stream

\* the datasets that are built twice: fraction mode, fractions that sum to 1
SeedSplits == {s \in FractionSplits : s.train + s.validation + s.test = FracDen}

InitSeed ==
    /\ InitWith(SourceLists({<<0, 0, 0, n, 1, 1>> : n \in 1..MaxShuffleLen}, 1),
                {<<1, 1, 1>>}, UnitShape, {<<>>}, SeedSplits,
                {<<FALSE, FALSE>>}, {<<>>}, {<<>>})
    /\ InitPlain

NextSeed ==
    \/ get_data_meshes
    \/ get_data_ind_ranges
    \/ get_data_ind_splits_fraction
    \/ build_again
    \/ build_in_new_process

SpecSeed == InitSeed /\ [][NextSeed]_vars

\* the constructor with cache_RAM or cache_HDD, and cached reads
NextCache ==
    \/ get_data_meshes
    \/ get_data_ind_ranges
    \/ fill_cache
    \/ call_wkw_read_cached

SpecCache == InitCache /\ [][NextCache]_vars

\* the draws a transform can make: none without a transform
Flips == IF transforms = None THEN {FALSE} ELSE BOOLEAN

\* dataset[idx]: __getitem__ calls get_ordered_sample (lines 153-155); the
\* transform draws as it likes
call_get_ordered_sample ==
    /\ pc = "ready"
    /\ \E sample_idx \in 0..(len_self - 1), flip_input \in Flips, flip_target \in Flips :
          ret' = get_ordered_sample(sample_idx, flip_input, flip_target)
    /\ UNCHANGED <<config_vars, registry_vars, memo_vars, more_vars, proc_vars, rng_vars, grid_vars, split_vars, cache_vars, pc>>

\* get_ordered_sample(sample_idx) called again and again on one dataset; the
\* first result and whether another index was requested since are kept as
\* history
repeat_get_ordered_sample ==
    /\ pc = "ready"
    /\ \E sample_idx \in 0..(len_self - 1), flip_input \in Flips, flip_target \in Flips :
          ret' = get_ordered_sample(sample_idx, flip_input, flip_target)
    /\ first_sample' = IF first_sample = None THEN ret' ELSE first_sample
    /\ other_sample' = (other_sample \/ (first_sample # None /\ ret'.sample_idx # first_sample.sample_idx))
    /\ UNCHANGED <<config_vars, registry_vars, memo_vars, more_vars, first_split, rng_vars, grid_vars, split_vars, cache_vars, pc>>

\* dataset.pad(target) on an (x, y, z) array of the target window's shape
call_pad ==
    /\ pc = "ready"
    /\ \E sample_idx \in 0..(len_self - 1) :
          LET b == get_bbox_for_sample_idx(sample_idx, "target")
              window == wkw_read(wkw_store[data_sources[b[1] + 1].target_path], b[2])
              target == [shape |-> window.shape,
                         at |-> [p \in DOMAIN window.at |-> <<window.at[p], 1>>]]
              r == pad(target)
          IN  ret' = [op |-> "pad", target |-> target, raised |-> r.raised, value |-> r.value]
    /\ UNCHANGED <<config_vars, registry_vars, memo_vars, more_vars, proc_vars, rng_vars, grid_vars, split_vars, cache_vars, pc>>

\* the outputs of a model for a batch: arrays of output_shape
OutputsFor(n) ==
    [k \in 1..n |->
        [shape |-> output_shape,
         at |-> [p \in Index3(output_shape) |-> (k + p[1]) % 3]]]

\* the batches of sample indices: one sample, or a sample and the next
Batches == {<<i>> : i \in 0..(len_self - 1)} \cup
           {<<i, (i + 1) % len_self>> : i \in 0..(len_self - 1)}

\* write_output_to_cache(outputs, sample_inds, output_label) for a batch of
\* one or two samples
write_output_to_cache ==
    /\ pc = "ready"
    /\ n_writes < MaxWrites
    /\ \E sample_inds \in Batches, output_label \in Labels :
          LET outputs == OutputsFor(Len(sample_inds))
              r == write_outputs(data_cache_output, outputs, sample_inds, output_label, 1)
          IN  /\ data_cache_output' = r.cache
              /\ ret' = [op |-> "write_output_to_cache", outputs |-> outputs,
                         sample_inds |-> sample_inds, output_label |-> output_label,
                         before |-> data_cache_output, raised |-> r.raised]
    /\ n_writes' = n_writes + 1
    /\ UNCHANGED <<config_vars, registry_vars, memo_vars, proc_vars, rng_vars, workers, output_wkw, grid_vars, split_vars, cache_vars, pc>>

\* interpolate_sparse_cache(output_label, method='nearest')
interpolate_sparse_cache ==
    /\ pc = "ready"
    /\ \E output_label \in Labels, last \in BOOLEAN, empty_raises \in BOOLEAN :
          LET r == interpolate_from(data_cache_output, output_label, 1, 0, last, empty_raises)
          IN  /\ data_cache_output' = r.cache
              /\ ret' = [op |-> "interpolate_sparse_cache", output_label |-> output_label,
                         before |-> data_cache_output, raised |-> r.raised]
    /\ UNCHANGED <<config_vars, registry_vars, memo_vars, proc_vars, rng_vars, n_writes, workers, output_wkw, grid_vars, split_vars, cache_vars, pc>>

----------------------------------------------------------------------------
(* fill_cache run by several workers at a time, statement by statement *)

Workers == 1..MaxWorkers

\* the workers call fill_cache(wkw_path, wkw_bbox) for the input volume of a
\* source each, where __init__ would call fill_caches
start_workers ==
    /\ pc = "fill"
    /\ workers = <<>>
    /\ \E sources \in [Workers -> DOMAIN data_sources] :
          workers' = [w \in Workers |->
                         [pc |-> "fetch",
                          wkw_path |-> data_sources[sources[w]].input_path,
                          wkw_bbox |-> data_sources[sources[w]].input_bbox,
                          data |-> NoData, flag |-> FALSE, rest |-> {}, raised |-> ""]]
    /\ pc' = "workers"
    /\ ret' = [op |-> "start_workers"]
    /\ UNCHANGED <<config_vars, registry_vars, memo_vars, proc_vars, rng_vars, data_cache_output, n_writes, output_wkw, grid_vars, split_vars, cache_vars>>

worker_at(w, at) == pc = "workers" /\ workers[w].pc = at
worker_frame ==
    UNCHANGED <<config_vars, registry_vars, memo_vars, proc_vars, rng_vars, data_cache_output, n_writes, output_wkw, grid_vars, split_vars, fill_pos, pc>>

\* lines 369-375: the fetch
worker_fetch(w) ==
    /\ worker_at(w, "fetch")
    /\ LET r == fill_cache_data(workers[w].wkw_path, workers[w].wkw_bbox)
       IN  /\ workers' = [workers EXCEPT ![w].data = r.data,
                                         ![w].pc = IF cache_RAM THEN "RAM_test"
                                                   ELSE IF cache_HDD THEN "exists_dir"
                                                   ELSE "done"]
           /\ ret' = [op |-> "worker_fetch", worker |-> w, reads |-> r.reads]
    /\ UNCHANGED <<data_cache_input, hdd_cache>>
    /\ worker_frame

\* line 379: wkw_path not in self.data_cache_input
worker_RAM_test(w) ==
    /\ worker_at(w, "RAM_test")
    /\ workers' = [workers EXCEPT ![w].flag = workers[w].wkw_path \notin DOMAIN data_cache_input,
                                  ![w].pc = "RAM_store"]
    /\ ret' = [op |-> "worker_RAM_test", worker |-> w]
    /\ UNCHANGED <<data_cache_input, hdd_cache>>
    /\ worker_frame

\* line 380 or line 382, as line 379 found
worker_RAM_store(w) ==
    /\ worker_at(w, "RAM_store")
    /\ data_cache_input' =
          IF workers[w].flag
          THEN dict_set(data_cache_input, workers[w].wkw_path,
                        dict_set(<<>>, str(workers[w].wkw_bbox), workers[w].data))
          ELSE dict_set(data_cache_input, workers[w].wkw_path,
                        dict_set(data_cache_input[workers[w].wkw_path],
                                 str(workers[w].wkw_bbox), workers[w].data))
    /\ workers' = [workers EXCEPT ![w].pc = IF cache_HDD THEN "exists_dir" ELSE "done"]
    /\ ret' = [op |-> "worker_RAM_store", worker |-> w]
    /\ UNCHANGED hdd_cache
    /\ worker_frame

\* line 386: not os.path.exists(wkw_cache_path)
worker_exists_dir(w) ==
    /\ worker_at(w, "exists_dir")
    /\ workers' = [workers EXCEPT ![w].pc = IF hdd_cache[workers[w].wkw_path].dir
                                            THEN "exists_header" ELSE "makedirs"]
    /\ ret' = [op |-> "worker_exists_dir", worker |-> w]
    /\ UNCHANGED <<data_cache_input, hdd_cache>>
    /\ worker_frame

\* line 387: os.makedirs(wkw_cache_path) raises FileExistsError when the
\* directory is there
worker_makedirs(w) ==
    /\ worker_at(w, "makedirs")
    /\ IF hdd_cache[workers[w].wkw_path].dir
       THEN /\ workers' = [workers EXCEPT ![w].pc = "raised", ![w].raised = "FileExistsError"]
            /\ UNCHANGED hdd_cache
       ELSE /\ workers' = [workers EXCEPT ![w].pc = "exists_header"]
            /\ hdd_cache' = [hdd_cache EXCEPT ![workers[w].wkw_path].dir = TRUE]
    /\ ret' = [op |-> "worker_makedirs", worker |-> w]
    /\ UNCHANGED data_cache_input
    /\ worker_frame

\* line 389: not os.path.exists(os.path.join(wkw_cache_path, 'header.wkw'))
worker_exists_header(w) ==
    /\ worker_at(w, "exists_header")
    /\ workers' = [workers EXCEPT ![w].pc = IF hdd_cache[workers[w].wkw_path].header
                                            THEN "wkw_write" ELSE "wkw_create"]
    /\ ret' = [op |-> "worker_exists_header", worker |-> w]
    /\ UNCHANGED <<data_cache_input, hdd_cache>>
    /\ worker_frame

\* line 390: wkw.Dataset.create; on a directory that has a header by now the
\* library refuses, or writes the header again
worker_wkw_create(w) ==
    /\ worker_at(w, "wkw_create")
    /\ \E refuses \in BOOLEAN :
          IF hdd_cache[workers[w].wkw_path].header /\ refuses
          THEN /\ workers' = [workers EXCEPT ![w].pc = "raised", ![w].raised = "WKWException"]
               /\ UNCHANGED hdd_cache
          ELSE /\ workers' = [workers EXCEPT ![w].pc = "wkw_write"]
               /\ hdd_cache' = [hdd_cache EXCEPT ![workers[w].wkw_path].header = TRUE]
    /\ ret' = [op |-> "worker_wkw_create", worker |-> w]
    /\ UNCHANGED data_cache_input
    /\ worker_frame

\* line 392: wkw_write, a part of the voxels first
worker_wkw_write(w) ==
    /\ worker_at(w, "wkw_write")
    /\ \E part \in SUBSET BoxVoxels(workers[w].wkw_bbox) :
          /\ hdd_cache' = [hdd_cache EXCEPT ![workers[w].wkw_path].data =
                              wkw_write_part(@, workers[w].wkw_bbox, workers[w].data, part)]
          /\ workers' = [workers EXCEPT ![w].rest = BoxVoxels(workers[w].wkw_bbox) \ part,
                                        ![w].pc = "wkw_write_rest"]
    /\ ret' = [op |-> "worker_wkw_write", worker |-> w]
    /\ UNCHANGED data_cache_input
    /\ worker_frame

\* line 392: wkw_write, the other voxels
worker_wkw_write_rest(w) ==
    /\ worker_at(w, "wkw_write_rest")
    /\ hdd_cache' = [hdd_cache EXCEPT ![workers[w].wkw_path].data =
                        wkw_write_part(@, workers[w].wkw_bbox, workers[w].data, workers[w].rest)]
    /\ workers' = [workers EXCEPT ![w].rest = {}, ![w].pc = "done"]
    /\ ret' = [op |-> "worker_wkw_write_rest", worker |-> w]
    /\ UNCHANGED data_cache_input
    /\ worker_frame

----------------------------------------------------------------------------
(* wkw_write_cache run by several workers at a time *)

\* os.path.split(path)[1]
basename(path) == IF path = "/a" THEN "a" ELSE "b"

\* os.path.join(output_wkw_root, output_label, wkw_mag) and what is there
output_wkw_path(output_label, path) == <<output_label, basename(path)>>
output_dataset(wkw_path) ==
    IF wkw_path \in DOMAIN output_wkw THEN output_wkw[wkw_path]
    ELSE [dir |-> FALSE, header |-> FALSE, written |-> {}]

\* the workers call wkw_write_cache(output_label, output_wkw_root) with one
\* output_wkw_root on the volumes collected so far
start_export ==
    /\ pc = "ready"
    /\ workers = <<>>
    /\ data_cache_output # <<>>
    /\ \E labels \in [Workers -> Labels] :
          workers' = [w \in Workers |->
                         [pc |-> "exists_dir", output_label |-> labels[w], entry |-> 1,
                          raised |-> ""]]
    /\ pc' = "export"
    /\ ret' = [op |-> "start_export"]
    /\ UNCHANGED <<config_vars, registry_vars, memo_vars, proc_vars, rng_vars, data_cache_output, n_writes, output_wkw, grid_vars, split_vars, cache_vars>>

export_at(w, at) == pc = "export" /\ workers[w].pc = at
export_path(w) == output_wkw_path(workers[w].output_label, data_cache_output[workers[w].entry].wkw_path)
export_frame ==
    UNCHANGED <<config_vars, registry_vars, memo_vars, proc_vars, rng_vars, data_cache_output, n_writes, grid_vars, split_vars, cache_vars, pc>>

\* line 447: not os.path.exists(output_wkw_path)
export_exists_dir(w) ==
    /\ export_at(w, "exists_dir")
    /\ workers' = [workers EXCEPT ![w].pc = IF output_dataset(export_path(w)).dir
                                            THEN "wkw_write" ELSE "makedirs"]
    /\ ret' = [op |-> "export_exists_dir", worker |-> w]
    /\ UNCHANGED output_wkw
    /\ export_frame

\* line 448: os.makedirs(output_wkw_path)
export_makedirs(w) ==
    /\ export_at(w, "makedirs")
    /\ IF output_dataset(export_path(w)).dir
       THEN /\ workers' = [workers EXCEPT ![w].pc = "raised", ![w].raised = "FileExistsError"]
            /\ UNCHANGED output_wkw
       ELSE /\ workers' = [workers EXCEPT ![w].pc = "wkw_create"]
            /\ output_wkw' = dict_set(output_wkw, export_path(w),
                                      [output_dataset(export_path(w)) EXCEPT !.dir = TRUE])
    /\ ret' = [op |-> "export_makedirs", worker |-> w]
    /\ export_frame

\* line 449: wkw.Dataset.create in the directory just made
export_wkw_create(w) ==
    /\ export_at(w, "wkw_create")
    /\ workers' = [workers EXCEPT ![w].pc = "wkw_write"]
    /\ output_wkw' = dict_set(output_wkw, export_path(w),
                              [output_dataset(export_path(w)) EXCEPT !.header = TRUE])
    /\ ret' = [op |-> "export_wkw_create", worker |-> w]
    /\ export_frame

\* lines 451-459 for one bbox: the volume of the label is looked up and
\* written to the dataset, which wkw.Dataset.open finds by its header; then
\* the next bbox, or the next path at line 443
export_wkw_write(w) ==
    /\ export_at(w, "wkw_write")
    /\ LET e == workers[w].entry
           entry == data_cache_output[e]
           next == IF e = Len(data_cache_output) THEN "done"
                   ELSE IF data_cache_output[e + 1].wkw_path # entry.wkw_path THEN "exists_dir"
                   ELSE "wkw_write"
       IN  IF workers[w].output_label \notin DOMAIN entry.labels
           THEN /\ workers' = [workers EXCEPT ![w].pc = "raised", ![w].raised = "KeyError"]
                /\ UNCHANGED output_wkw
           ELSE IF ~output_dataset(export_path(w)).header
           THEN /\ workers' = [workers EXCEPT ![w].pc = "raised", ![w].raised = "WKWException"]
                /\ UNCHANGED output_wkw
           ELSE /\ workers' = [workers EXCEPT ![w].pc = next,
                                             ![w].entry = IF next = "done" THEN e ELSE e + 1]
                /\ output_wkw' = dict_set(output_wkw, export_path(w),
                                          [output_dataset(export_path(w)) EXCEPT
                                              !.written = @ \cup {entry.wkw_bbox}])
    /\ ret' = [op |-> "export_wkw_write", worker |-> w]
    /\ export_frame

\* the constructor, fill_cache by workers, and wkw_write_cache by workers
NextWorkers ==
    \/ write_output_to_cache
    \/ start_export
    \/ \E w \in Workers : export_exists_dir(w)
    \/ \E w \in Workers : export_makedirs(w)
    \/ \E w \in Workers : export_wkw_create(w)
    \/ \E w \in Workers : export_wkw_write(w)
    \/ get_data_meshes
    \/ get_data_ind_ranges
    \/ start_workers
    \/ \E w \in Workers : worker_fetch(w)
    \/ \E w \in Workers : worker_RAM_test(w)
    \/ \E w \in Workers : worker_RAM_store(w)
    \/ \E w \in Workers : worker_exists_dir(w)
    \/ \E w \in Workers : worker_makedirs(w)
    \/ \E w \in Workers : worker_exists_header(w)
    \/ \E w \in Workers : worker_wkw_create(w)
    \/ \E w \in Workers : worker_wkw_write(w)
    \/ \E w \in Workers : worker_wkw_write_rest(w)

SpecWorkers == InitWorkers /\ [][NextWorkers]_vars

\* the constructor and the sparse result writer
NextWriter ==
    \/ get_data_meshes
    \/ get_data_ind_ranges
    \/ write_output_to_cache
    \/ interpolate_sparse_cache

SpecWriter == InitWriter /\ [][NextWriter]_vars

\* the constructor and the sample assembler
NextSample ==
    \/ get_data_meshes
    \/ get_data_ind_ranges
    \/ get_data_ind_splits_strata
    \/ fill_cache
    \/ call_get_ordered_sample
    \/ call_pad

SpecSample == InitSample /\ [][NextSample]_vars

\* repeated samples of a dataset without augmentation
InitRepeat ==
    /\ InitWith(SampleSourceLists, SampleShapes, OutShapes, {<<1, 1, 1>>}, SampleSplits,
                {<<FALSE, FALSE>>, <<TRUE, FALSE>>, <<FALSE, TRUE>>, <<TRUE, TRUE>>},
                SampleStores, {[path \in Paths |-> NoCache]})
    /\ InitOptions(BOOLEAN, {None}, BOOLEAN)

NextRepeat ==
    \/ get_data_meshes
    \/ get_data_ind_ranges
    \/ get_data_ind_splits_strata
    \/ fill_cache
    \/ repeat_get_ordered_sample

SpecRepeat == InitRepeat /\ [][NextRepeat]_vars

----------------------------------------------------------------------------
(* The data source registry: descriptor files in their long and short form  *)
(* A python dict is its keys in insertion order and the value of each key;  *)
(* a bbox is a python list or tuple: [py |-> "list", items |-> <<...>>]     *)

Fields ==
    <<"id", "input_path", "input_bbox", "input_mean", "input_std",
      "target_path", "target_bbox", "target_class", "target_binary">>
FieldNames == {Fields[i] : i \in DOMAIN Fields}
BBoxFields == {"input_bbox", "target_bbox"}

EmptyDict == [order |-> <<>>, at |-> <<>>]
has_key(d, key) == key \in DOMAIN d.at

\* d[key] = value
dict_put(d, key, value) ==
    [order |-> IF has_key(d, key) THEN d.order ELSE Append(d.order, key),
     at |-> [k \in DOMAIN d.at \cup {key} |-> IF k = key THEN value ELSE d.at[k]]]

\* d.pop(key, None)
dict_pop(d, key) ==
    [order |-> SelectSeq(d.order, LAMBDA k : k # key),
     at |-> [k \in DOMAIN d.at \ {key} |-> d.at[k]]]

\* d.update(other), for the first n keys of other
RECURSIVE dict_update_first(_, _, _)
dict_update_first(d, other, n) ==
    IF n = 0 THEN d
    ELSE dict_put(dict_update_first(d, other, n - 1), other.order[n], other.at[other.order[n]])

dict_update(d, other) == dict_update_first(d, other, Len(other.order))

\* d._asdict() of the namedtuple DataSource
asdict(d) == [order |-> Fields, at |-> [f \in FieldNames |-> d[f]]]

\* DataSource(**d), lines 20-36: a field that d lacks takes its default, a
\* key that is no field is a TypeError
DataSource_of(d) ==
    IF \E k \in DOMAIN d.at : k \notin FieldNames
    THEN [raised |-> "TypeError", value |-> None]
    ELSE [raised |-> "",
          value |-> [f \in FieldNames |->
                        IF has_key(d, f) THEN d.at[f]
                        ELSE IF f = "id" THEN "<class 'str'>" ELSE "NaN"]]

\* convert_ds_to_dict, lines 838-848, for the first n data sources
RECURSIVE convert_ds_to_dict_first(_, _)
convert_ds_to_dict_first(datasources, n) ==
    IF n = 0 THEN EmptyDict
    ELSE dict_put(convert_ds_to_dict_first(datasources, n - 1),
                  "datasource_" \o datasources[n].id, asdict(datasources[n]))

convert_ds_to_dict(datasources) == convert_ds_to_dict_first(datasources, Len(datasources))

\* convert_ds_to_list, lines 850-860
convert_ds_to_list(datasources_dict) ==
    IF \E i \in DOMAIN datasources_dict.order :
          DataSource_of(datasources_dict.at[datasources_dict.order[i]]).raised # ""
    THEN [raised |-> "TypeError", value |-> <<>>]
    ELSE [raised |-> "",
          value |-> [i \in DOMAIN datasources_dict.order |->
                        DataSource_of(datasources_dict.at[datasources_dict.order[i]]).value]]

\* every field is taken for shared, with the value the first source has
shared_with_first(long_ds_dict, per_key) == TRUE

\* lines 793-797: first == x for every further x
is_identical(long_ds_dict, per_key) ==
    \A i \in DOMAIN long_ds_dict.order :
        long_ds_dict.at[long_ds_dict.order[i]].at[per_key]
            = long_ds_dict.at[long_ds_dict.order[1]].at[per_key]

\* ds_find_shared_properties, lines 767-800
shared_of(long_ds_dict, per_ds_keys) ==
    [order |-> SelectSeq(per_ds_keys, LAMBDA k : is_identical(long_ds_dict, k)),
     at |-> [k \in {f \in FieldNames : is_identical(long_ds_dict, f)} |->
                long_ds_dict.at[long_ds_dict.order[1]].at[k]]]

ds_find_shared_properties(sources) ==
    shared_of(convert_ds_to_dict(sources),
              convert_ds_to_dict(sources).at[convert_ds_to_dict(sources).order[1]].order)

\* lines 756-762: d without the first n of the keys to remove
RECURSIVE pop_first(_, _, _)
pop_first(d, key2remove_list, n) ==
    IF n = 0 THEN d ELSE dict_pop(pop_first(d, key2remove_list, n - 1), key2remove_list[n])

\* lines 763-765
short_dict_of(shared_properties, ds_dict) ==
    [order |-> <<"shared_properties">> \o ds_dict.order,
     at |-> [k \in {"shared_properties"} \cup DOMAIN ds_dict.at |->
                IF k = "shared_properties" THEN shared_properties
                ELSE pop_first(ds_dict.at[k], shared_properties.order,
                               Len(shared_properties.order))]]

\* convert_to_short_ds, lines 739-765, for a list of data sources
convert_to_short_ds(sources) ==
    short_dict_of(ds_find_shared_properties(sources), convert_ds_to_dict(sources))

\* json.dump of a value of a field: a tuple is written as an array, which
\* json.load reads as a list
json_value(field, value) ==
    IF field \in BBoxFields THEN [py |-> "list", items |-> value.items] ELSE value

json_fields(d) == [order |-> d.order, at |-> [f \in DOMAIN d.at |-> json_value(f, d.at[f])]]

\* json.dump of a dict of dicts of fields followed by json.load
json_dump(ds_dict) ==
    [order |-> ds_dict.order, at |-> [k \in DOMAIN ds_dict.at |-> json_fields(ds_dict.at[k])]]

\* write_short_ds_json, lines 696-712: what the file holds
write_short_ds_json(datasources, convert_to_short) ==
    json_dump(IF convert_to_short THEN convert_to_short_ds(datasources)
              ELSE convert_ds_to_dict(datasources))

\* lines 726-734 of read_short_ds_json
add_shared(ds_dict) ==
    [order |-> SelectSeq(ds_dict.order, LAMBDA k : k # "shared_properties"),
     at |-> [k \in DOMAIN ds_dict.at \ {"shared_properties"} |->
                dict_update(ds_dict.at[k], ds_dict.at["shared_properties"])]]

\* read_short_ds_json, lines 714-737, of what json.load returned
read_short_ds_json(ds_dict) ==
    IF has_key(ds_dict, "shared_properties")
    THEN convert_ds_to_list(add_shared(ds_dict))
    ELSE convert_ds_to_list(ds_dict)

\* datasources_from_json, lines 669-679
datasources_from_json(ds_dict) == convert_ds_to_list(ds_dict)

\* datasources_to_json, lines 681-693: "datasource_<id>" and the fields of
\* each source, one after the other in one object
datasources_to_json(datasources) == json_dump(convert_ds_to_dict(datasources))

\* the id of the n-th source is not corrected
keep_id(cur_data_source, it) == cur_data_source

\* line 879: cur_data_source._replace(id=str(it))
replace_id(cur_data_source, it) ==
    [cur_data_source EXCEPT !.id = ToString(it)]

\* lines 870-874 of concat_datasources for the first n paths, given what the
\* files hold
RECURSIVE all_ds_first(_, _, _)
all_ds_first(files, json_paths_in, n) ==
    IF n = 0 THEN <<>>
    ELSE all_ds_first(files, json_paths_in, n - 1)
            \o datasources_from_json(files[json_paths_in[n]].json).value

\* concat_datasources, lines 861-887: the list it returns
concat_datasources(files, json_paths_in) ==
    [it \in 1..Len(all_ds_first(files, json_paths_in, Len(json_paths_in))) |->
        replace_id(all_ds_first(files, json_paths_in, Len(json_paths_in))[it], it - 1)]

\* lines 655-661 of datasources_bbox_from_json: the corners of the grid
ceil_to(a, ext) == CeilDiv(a, ext) * ext
floor_to(a, ext) == (a \div ext) * ext
bbox_grid(input_bbox, bbox_ext) ==
    [a \in 1..3 |->
        arange(ceil_to(input_bbox[a], bbox_ext[a]),
               floor_to(input_bbox[a] + input_bbox[3 + a], bbox_ext[a]), bbox_ext[a])]

\* xm[xi, yi, zi] and its like: IndexError outside of the array
subscript_ok(m, p) == p \in DOMAIN m.at

\* lines 662-664: the bbox cut out for bbox_idx
bbox_at(m, p, bbox_ext) ==
    IF p = ValueError THEN [raised |-> "ValueError", bbox |-> <<>>]
    ELSE IF ~subscript_ok(m.x, p) THEN [raised |-> "IndexError", bbox |-> <<>>]
    ELSE [raised |-> "",
          bbox |-> <<m.x.at[p], m.y.at[p], m.z.at[p], bbox_ext[1], bbox_ext[2], bbox_ext[3]>>]

bbox_of_grid(g, bbox_ext, bbox_idx) ==
    bbox_at(meshgrid(g[1], g[2], g[3]),
            unravel_index(bbox_idx, <<Len(g[1]), Len(g[2]), Len(g[3])>>), bbox_ext)

\* datasources_bbox_from_json, lines 651-667
datasources_bbox_from_json(ds_dict, bbox_ext, bbox_idx, datasource_idx) ==
    bbox_of_grid(bbox_grid(datasources_from_json(ds_dict).value[datasource_idx + 1].input_bbox.items,
                           bbox_ext),
                 bbox_ext, bbox_idx)

----------------------------------------------------------------------------
(* Calls of the registry's static methods on descriptor files: a program    *)
(* makes one call, or writes a file and reads files                         *)

NoFile == [exists |-> FALSE, json |-> EmptyDict]
JsonFile(ds_dict) == [exists |-> TRUE, json |-> ds_dict]

\* the bboxes of the descriptors: two lists and a tuple
RegistryBox(b) ==
    IF b = 0 THEN [py |-> "list", items |-> <<0, 0, 0, 4, 2, 2>>]
    ELSE IF b = 1 THEN [py |-> "list", items |-> <<1, 2, 3, 2, 3, 1>>]
    ELSE [py |-> "tuple", items |-> <<0, 0, 0, 4, 2, 2>>]

\* DataSource(id, ...) with the paths, the bboxes, the statistics and the
\* target of the variant v
RegistrySource(id, v) ==
    [id |-> id,
     input_path |-> IF v[1] = 0 THEN "/a" ELSE "/b",
     input_bbox |-> RegistryBox(v[2]),
     input_mean |-> 1 + v[3],
     input_std |-> 2 + v[3],
     target_path |-> IF v[1] = 0 THEN "/a" ELSE "/c",
     target_bbox |-> RegistryBox(v[2]),
     target_class |-> v[4],
     target_binary |-> (v[4] = 1)]

\* two variants that share no field, and three that share some with the first
FileVariants == {<<0, 0, 0, 0>>, <<1, 1, 1, 1>>}
Variants == FileVariants \cup {<<0, 2, 0, 0>>, <<0, 0, 1, 0>>, <<1, 0, 0, 1>>}

\* the lists of 1..MaxSources data sources with pairwise different ids
RegistryIds == {ToString(i) : i \in 1..MaxSources}
UniqueIds(k) == {id \in [1..k -> RegistryIds] : \A i, j \in 1..k : i # j => id[i] # id[j]}
RegistryLists ==
    {[i \in DOMAIN ids |-> RegistrySource(ids[i], v[i])] :
        <<ids, v>> \in UNION {UniqueIds(k) \X [1..k -> Variants] : k \in 1..MaxSources}}

\* the lists a descriptor file holds from the start, with the ids "1", "2", ...
FileLists ==
    {[i \in DOMAIN v |-> RegistrySource(ToString(i), v[i])] :
        v \in UNION {[1..k -> FileVariants] : k \in 1..MaxSources}}

\* the long descriptor files that exist from the start
DescriptorPaths == {"/x.json", "/y.json"}
RegistryPaths == DescriptorPaths \cup {"/short.json", "/out.json"}
InitFiles ==
    {[p \in RegistryPaths |->
        IF p = "/x.json" THEN JsonFile(datasources_to_json(l))
        ELSE IF p = "/y.json"
        THEN JsonFile(datasources_to_json(<<RegistrySource("1", <<1, 0, 0, 1>>)>>))
        ELSE NoFile] :
     l \in FileLists}

InitRegistry ==
    /\ InitFields({<<>>}, {<<1, 1, 1>>}, {<<>>}, {<<>>}, {None}, {<<FALSE, FALSE>>}, {<<>>}, {<<>>})
    /\ InitPlain
    /\ json_files \in InitFiles
    /\ pc = "registry"
    /\ ret = [op |-> "import"]

registry_frame ==
    UNCHANGED <<config_vars, grid_vars, split_vars, cache_vars, more_vars, proc_vars, rng_vars,
                memo_vars>>

\* write_short_ds_json(datasources, "/short.json", convert_to_short)
call_write_short_ds_json ==
    /\ pc = "registry"
    /\ \E datasources \in RegistryLists, convert_to_short \in BOOLEAN :
          /\ json_files' = [json_files EXCEPT !["/short.json"] =
                               JsonFile(write_short_ds_json(datasources, convert_to_short))]
          /\ ret' = [op |-> "write_short_ds_json", json_path |-> "/short.json",
                     datasources |-> datasources, convert_to_short |-> convert_to_short]
    /\ pc' = "written"
    /\ registry_frame

\* read_short_ds_json(json_path) of a file that exists
call_read_short_ds_json ==
    /\ pc \in {"registry", "written", "concatenated"}
    /\ \E json_path \in RegistryPaths :
          /\ json_files[json_path].exists
          /\ ret' = [op |-> "read_short_ds_json", json_path |-> json_path,
                     raised |-> read_short_ds_json(json_files[json_path].json).raised,
                     datasources |-> read_short_ds_json(json_files[json_path].json).value]
    /\ pc' = IF pc = "registry" THEN "called" ELSE pc
    /\ UNCHANGED json_files
    /\ registry_frame

\* the lists of one or two descriptor files
ConcatPaths == UNION {[1..k -> DescriptorPaths] : k \in 1..2}

\* concat_datasources(json_paths_in, json_path_out); json_path_out = None is ""
call_concat_datasources ==
    /\ pc = "registry"
    /\ \E json_paths_in \in ConcatPaths, json_path_out \in {"", "/out.json"} :
          /\ ret' = [op |-> "concat_datasources", json_paths_in |-> json_paths_in,
                     json_path_out |-> json_path_out,
                     datasources |-> concat_datasources(json_files, json_paths_in)]
          /\ json_files' =
                IF json_path_out = "" THEN json_files
                ELSE [json_files EXCEPT ![json_path_out] =
                         JsonFile(datasources_to_json(concat_datasources(json_files, json_paths_in)))]
          /\ pc' = IF json_path_out = "" THEN "called" ELSE "concatenated"
    /\ registry_frame

\* the extents of the sub-boxes to crop
BBoxExts == {<<1, 1, 1>>, <<2, 1, 1>>, <<2, 2, 2>>, <<4, 1, 2>>}

\* the grid of datasources_bbox_from_json for the first source of a file
grid_of(json_path, bbox_ext) ==
    bbox_grid(datasources_from_json(json_files[json_path].json).value[1].input_bbox.items,
              bbox_ext)
n_boxes(g) == Len(g[1]) * Len(g[2]) * Len(g[3])

\* datasources_bbox_from_json(json_path, bbox_ext, bbox_idx) for a bbox_idx
\* below the number of sub-boxes
call_datasources_bbox_from_json ==
    /\ pc = "registry"
    /\ \E json_path \in DescriptorPaths, bbox_ext \in BBoxExts :
          \E bbox_idx \in 0..(n_boxes(grid_of(json_path, bbox_ext)) - 1) :
             ret' = [op |-> "datasources_bbox_from_json", json_path |-> json_path,
                     bbox_ext |-> bbox_ext, bbox_idx |-> bbox_idx,
                     raised |-> datasources_bbox_from_json(json_files[json_path].json,
                                                           bbox_ext, bbox_idx, 0).raised,
                     bbox |-> datasources_bbox_from_json(json_files[json_path].json,
                                                         bbox_ext, bbox_idx, 0).bbox]
    /\ pc' = "called"
    /\ UNCHANGED json_files
    /\ registry_frame

NextRegistry ==
    \/ call_write_short_ds_json
    \/ call_read_short_ds_json
    \/ call_concat_datasources
    \/ call_datasources_bbox_from_json

SpecRegistry == InitRegistry /\ [][NextRegistry]_vars

----------------------------------------------------------------------------
(* Properties of the grids and the index ranges (specification Spec) *)

meshes_built == pc # "new"
ranges_built == pc \notin {"new", "meshes"}

\* the cells of source i (1-based position in data_sources)
Cells(i) == DOMAIN data_meshes[i].target.x.at

\* the window-center coordinate held by cell c of a mesh
Center(mesh, c) == <<mesh.x.at[c], mesh.y.at[c], mesh.z.at[c]>>

\* C1: after get_data_ind_ranges, min_0 = 0, min_i = max_(i-1) + 1 and
\* max_i = min_i + cell_count(i) - 1; the ranges are pairwise disjoint, their
\* union is exactly 0..len-1, and len is max_index of the last source + 1.
C1_RangesTile ==
    ranges_built =>
        LET n == Len(data_sources)
            range(i) == data_inds_min[i]..data_inds_max[i]
        IN  /\ Len(data_inds_min) = n /\ Len(data_inds_max) = n
            /\ data_inds_min[1] = 0
            /\ \A i \in 2..n : data_inds_min[i] = data_inds_max[i - 1] + 1
            /\ \A i \in 1..n : data_inds_max[i] = data_inds_min[i] + Cardinality(Cells(i)) - 1
            /\ \A i, j \in 1..n : i # j => range(i) \cap range(j) = {}
            /\ UNION {range(i) : i \in 1..n} = 0..(len_self - 1)
            /\ len_self = data_inds_max[n] + 1

C1_Witness ==
    /\ pc = "ready"
    /\ Len(data_sources) = 2
    /\ data_inds_max[1] > 0
    /\ data_inds_max[2] > data_inds_min[2]
    /\ Cardinality(Cells(1)) # Cardinality(Cells(2))

\* C2: get_source_mesh_for_sample_idx is a bijection between 0..len-1 and the
\* (source, cell) pairs: an index maps to the one source whose range holds it,
\* distinct indices give distinct (source, window center), every cell of every
\* source is hit, and raveling the subscripts and adding min_index gives the
\* index back.
C2_LocateBijection ==
    ranges_built =>
        LET n == Len(data_sources)
            loc(idx) == get_source_mesh_for_sample_idx(idx)
            ravel(c, dims) == c[1] * dims[2] * dims[3] + c[2] * dims[3] + c[3]
            at(idx) == <<loc(idx)[1], Center(data_meshes[loc(idx)[1] + 1].target, loc(idx)[2])>>
        IN  /\ \A idx \in 0..(len_self - 1) :
                  LET s == loc(idx)[1] + 1
                      c == loc(idx)[2]
                  IN  /\ s \in 1..n
                      /\ data_inds_min[s] <= idx /\ idx <= data_inds_max[s]
                      /\ \A t \in 1..n :
                            (data_inds_min[t] <= idx /\ idx <= data_inds_max[t]) => t = s
                      /\ c \in Cells(s)
                      /\ ravel(c, data_meshes[s].target.x.shape) + data_inds_min[s] = idx
            /\ Cardinality({at(idx) : idx \in 0..(len_self - 1)}) = len_self
            /\ {<<loc(idx)[1] + 1, loc(idx)[2]>> : idx \in 0..(len_self - 1)}
                  = {<<s, c>> \in (1..n) \X UNION {Cells(t) : t \in 1..n} : c \in Cells(s)}

C2_Witness ==
    /\ pc = "ready"
    /\ ret.op = "get_source_mesh_for_sample_idx"
    /\ ret.value[1] = 1
    /\ ret.value[2] = <<2, 1, 1>>
    /\ data_meshes[2].target.x.shape = <<3, 2, 2>>

\* C3: for a source whose bbox extent is >= the window on every axis, the grid
\* holds, along each axis, n = floor((extent - window) / stride) + 1
\* coordinates starting at floor(origin + window / 2) and increasing by stride,
\* and has n_x * n_y * n_z cells, one for each combination of coordinates.
C3_GridShape ==
    meshes_built =>
        \A i \in 1..Len(data_sources) :
            LET bbox == data_sources[i].input_bbox
                n(a) == ((bbox[3 + a] - input_shape[a]) \div stride[a]) + 1
                first(a) == bbox[a] + (input_shape[a] \div 2)
                coords(a) == {first(a) + k * stride[a] : k \in 0..(n(a) - 1)}
                m == data_meshes[i].input
            IN  (\A a \in 1..3 : bbox[3 + a] >= input_shape[a]) =>
                    /\ {Center(m, c) : c \in DOMAIN m.x.at}
                          = coords(1) \X coords(2) \X coords(3)
                    /\ Cardinality(DOMAIN m.x.at) = n(1) * n(2) * n(3)
                    /\ \A c, d \in DOMAIN m.x.at : c # d => Center(m, c) # Center(m, d)
                    /\ \A a \in 1..3 : Cardinality(coords(a)) = n(a) /\ n(a) >= 1
                    /\ data_meshes[i].target = m

C3_Witness ==
    /\ pc = "ready"
    /\ data_sources[1].input_bbox = <<1, 2, 3, 2, 3, 2>>
    /\ input_shape = <<1, 2, 1>>
    /\ stride = <<2, 1, 1>>
    /\ data_meshes[1].input.x.shape = <<2, 1, 2>>
    /\ Center(data_meshes[1].input, <<1, 0, 1>>) = <<1, 4, 4>>

\* C4 (as claimed): a source whose bbox extent is smaller than the window on
\* some axis makes the construction fail; no constructed dataset holds a
\* source with an empty grid (max_index = min_index - 1).
C4_NoEmptyGridConstructed ==
    pc = "ready" =>
        \A i \in 1..Len(data_sources) :
            /\ \A a \in 1..3 : data_sources[i].input_bbox[3 + a] >= input_shape[a]
            /\ data_inds_max[i] >= data_inds_min[i]

----------------------------------------------------------------------------
(* Properties of the split (specification SpecSplit) *)

split_returned == pc = "ready" /\ ret.op = "get_data_ind_splits"
split_ended == pc \in {"ready", "raised"} /\ ret.op = "get_data_ind_splits"
fraction_mode == data_split.kind = "float"
strata_mode == data_split.kind = "list"

AllInds == 0..(len_self - 1)

\* floor(fraction * N) of the exact product
Floor(fraction) == (fraction * len_self) \div FracDen

\* the indices that the three floor allocations leave unallocated
Leftover ==
    len_self - Min2(len_self, Floor(data_split.train) + Floor(data_split.validation)
                                + Floor(data_split.test))

sums_to_one == data_split.train + data_split.validation + data_split.test = FracDen

\* C5: when fraction-mode get_data_ind_splits completes without raising, the
\* train, validation and test index sets are pairwise disjoint and their union
\* is {0, ..., len-1}.
C5_FractionPartition ==
    (split_returned /\ fraction_mode) =>
        /\ set(data_train_inds) \cap set(data_validation_inds) = {}
        /\ set(data_train_inds) \cap set(data_test_inds) = {}
        /\ set(data_validation_inds) \cap set(data_test_inds) = {}
        /\ set(data_train_inds) \cup set(data_validation_inds) \cup set(data_test_inds)
              = AllInds

C5_Witness ==
    /\ split_returned /\ fraction_mode
    /\ len_self = 4
    /\ Len(data_train_inds) = 2
    /\ Len(data_validation_inds) = 1
    /\ Len(data_test_inds) = 1
    /\ data_train_inds # <<0, 1>>

\* the sizes the split sets have when no index is omitted
sizes_as_claimed ==
    /\ Len(data_validation_inds) = Floor(data_split.validation)
    /\ Len(data_test_inds) = Floor(data_split.test)
    /\ Len(data_train_inds) = Floor(data_split.train) + Leftover
    /\ set(data_train_inds) \cup set(data_validation_inds) \cup set(data_test_inds)
          = AllInds

C7_RaisesOnSeveralLeft ==
    (split_ended /\ fraction_mode) =>
        /\ Leftover > 1 =>
              /\ pc = "raised"
              /\ ret.raised # ""
              /\ data_train_inds = <<>>
              /\ data_validation_inds = <<>>
              /\ data_test_inds = <<>>
        /\ Leftover = 1 => (pc = "ready" /\ ret.raised = "")

C7_Witness ==
    /\ split_ended /\ fraction_mode
    /\ pc = "raised"
    /\ Leftover = 2
    /\ sums_to_one

\* the indices of the sources with the given id
IndsOfId(id) ==
    UNION {data_inds_min[i]..data_inds_max[i] :
              i \in {j \in 1..Len(data_sources) : data_sources[j].id = id}}

SourceIds == {data_sources[i].id : i \in 1..Len(data_sources)}
NamedIds ==
    set(data_split.train) \cup set(data_split.validation) \cup set(data_split.test)

\* C8: in strata mode every index of a source listed under train (validation,
\* test) is in the train (validation, test) set, no index of a source named in
\* none of the lists is in any split set, and an id that names no source makes
\* the setup raise.
C8_StrataSplit ==
    (split_ended /\ strata_mode) =>
        /\ pc = "ready" =>
              /\ \A id \in set(data_split.train) : IndsOfId(id) \subseteq set(data_train_inds)
              /\ \A id \in set(data_split.validation) :
                    IndsOfId(id) \subseteq set(data_validation_inds)
              /\ \A id \in set(data_split.test) : IndsOfId(id) \subseteq set(data_test_inds)
              /\ \A id \in SourceIds \ NamedIds :
                    IndsOfId(id) \cap (set(data_train_inds) \cup set(data_validation_inds)
                                         \cup set(data_test_inds)) = {}
        /\ (NamedIds \ SourceIds # {}) => pc = "raised"

C8_Witness ==
    /\ split_returned /\ strata_mode
    /\ Len(data_sources) = 2
    /\ data_split.train = <<"2">>
    /\ data_split.validation = <<>>
    /\ data_split.test = <<>>
    /\ set(data_train_inds) = {2, 3, 4}

C8_WitnessRaised ==
    /\ split_ended /\ strata_mode
    /\ pc = "raised"
    /\ data_split.validation = <<"x">>

----------------------------------------------------------------------------
(* Properties of the cache manager (specification SpecCache) *)

\* a direct, uncached wkw_read of the source path
DirectRead(wkw_path, wkw_bbox) == wkw_read(wkw_store[wkw_path], wkw_bbox)

\* C9 (as claimed): for every source, role and window of
\* get_bbox_for_sample_idx, wkw_read_cached returns the voxels a direct wkw_read
\* of the source path at that bbox returns, on a memory hit and when only the
\* disk cache holds the data.
C9_CachedReadEqualsDirect ==
    ret.op = "wkw_read_cached" =>
        /\ ret.raised = ""
        /\ ret.data = DirectRead(ret.wkw_path, ret.wkw_bbox)

\* what does hold of the memory table: filled from the source alone (no disk
\* caching), a cached read is the direct read
MemoryHitEqualsDirect ==
    (ret.op = "wkw_read_cached" /\ cache_RAM /\ ~cache_HDD) =>
        /\ ret.raised = "" /\ ret.reads = <<"ram">>
        /\ ret.data = DirectRead(ret.wkw_path, ret.wkw_bbox)

fill_returned == ret.op = "fill_cache" /\ cache_HDD

\* what the disk cache of the last fill_cache holds for its bbox
disk_cube == wkw_read(hdd_cache[ret.wkw_path].data, ret.wkw_bbox)

\* C29: after fill_cache(path, bbox) with disk caching on, the disk cache of
\* the path is a dataset that holds for bbox exactly the cube the fill
\* obtained, which is the memory entry of (path, bbox) when memory caching is
\* on; a disk cube that failed the completeness check is overwritten with the
\* cube of the source, one that passed it is left as it was, and so is
\* every voxel of the disk cache outside bbox and every other path.
C29_FillPersistsObtainedCube ==
    [][(fill_returned' /\ fill_pos' = fill_pos + 1) =>
          /\ (/\ hdd_cache[ret.wkw_path].dir /\ hdd_cache[ret.wkw_path].header
              /\ disk_cube = ret.data
              /\ cache_RAM => /\ ret.wkw_path \in DOMAIN data_cache_input
                              /\ str(ret.wkw_bbox) \in DOMAIN data_cache_input[ret.wkw_path]
                              /\ data_cache_input[ret.wkw_path][str(ret.wkw_bbox)] = ret.data
              /\ ret.reads = <<"hdd", "source">> =>
                    disk_cube = DirectRead(ret.wkw_path, ret.wkw_bbox)
              /\ ret.reads = <<"hdd">> => disk_cube = ret.hdd_data)'
          /\ ret'.reads = <<"hdd">> =>
                wkw_read(hdd_cache'[ret'.wkw_path].data, VolumeBox)
                    = wkw_read(hdd_cache[ret'.wkw_path].data, VolumeBox)
          /\ \A v \in BoxVoxels(VolumeBox) \ BoxVoxels(ret'.wkw_bbox) :
                /\ v \in DOMAIN hdd_cache[ret'.wkw_path].data =>
                      /\ v \in DOMAIN hdd_cache'[ret'.wkw_path].data
                      /\ hdd_cache'[ret'.wkw_path].data[v] = hdd_cache[ret'.wkw_path].data[v]
                /\ v \in DOMAIN hdd_cache'[ret'.wkw_path].data =>
                      v \in DOMAIN hdd_cache[ret'.wkw_path].data
          /\ \A path \in Paths \ {ret'.wkw_path} : hdd_cache'[path] = hdd_cache[path]]_vars

\* a fill that found a disk cube with an all-zero face, fetched the source
\* and left its cube on disk and in the memory table
C29_Witness ==
    /\ fill_returned /\ cache_RAM /\ ret.header_existed
    /\ ret.reads = <<"hdd", "source">>
    /\ ret.hdd_data # ret.data
    /\ disk_cube = ret.data
    /\ data_cache_input[ret.wkw_path][str(ret.wkw_bbox)] = ret.data

\* a fill that created the dataset
FillCreatesDataset ==
    /\ fill_returned /\ ~ret.header_existed
    /\ ret.reads = <<"source">>
    /\ hdd_cache[ret.wkw_path].header /\ disk_cube = ret.data

\* a fill whose disk cube passed the check with zeros the source does not have
FillKeepsAcceptedCube ==
    /\ fill_returned /\ ret.reads = <<"hdd">>
    /\ disk_cube = ret.hdd_data
    /\ disk_cube # DirectRead(ret.wkw_path, ret.wkw_bbox)

\* C10: in fill_cache with disk caching on and a disk cache for the path, the
\* cube read from the disk cache is used, with no read of the source, exactly
\* when each of its six faces holds a non-zero voxel; otherwise it is dropped
\* and the cube is read from the source.
C10_CompletenessDecides ==
    (ret.op = "fill_cache" /\ cache_HDD /\ ret.header_existed) =>
        LET cube == ret.hdd_data
            face(axis, i) == {p \in Index3(cube.shape) : p[axis] = i}
            nonzero(ps) == \E p \in ps : cube.at[p] # 0
            six_faces == \A axis \in 1..3 :
                            nonzero(face(axis, 0)) /\ nonzero(face(axis, cube.shape[axis] - 1))
        IN  /\ cube.shape = <<ret.wkw_bbox[4], ret.wkw_bbox[5], ret.wkw_bbox[6]>>
            /\ six_faces <=> (ret.reads = <<"hdd">> /\ ret.data = cube)
            /\ ~six_faces =>
                  /\ ret.reads = <<"hdd", "source">>
                  /\ ret.data = DirectRead(ret.wkw_path, ret.wkw_bbox)

\* a disk cube that holds zeros where the source does not is accepted
C10_Witness ==
    /\ ret.op = "fill_cache" /\ cache_HDD /\ ret.header_existed
    /\ ret.reads = <<"hdd">>
    /\ ret.wkw_bbox = <<0, 0, 0, 2, 2, 2>>
    /\ ret.data # DirectRead(ret.wkw_path, ret.wkw_bbox)

\* a disk cube with an all-zero far z face is dropped
C10_WitnessRefetch ==
    /\ ret.op = "fill_cache" /\ cache_HDD /\ ret.header_existed
    /\ ret.reads = <<"hdd", "source">>
    /\ \E p \in DOMAIN ret.hdd_data.at : ret.hdd_data.at[p] # 0
    /\ ret.data # ret.hdd_data

\* a non-zero voxel on each of the six faces of a cube
SixFacesNonZero(cube) ==
    \A axis \in 1..3 : \A i \in {0, cube.shape[axis] - 1} :
        \E p \in Index3(cube.shape) : p[axis] = i /\ cube.at[p] # 0

\* the memory table has an entry for the registered (path, bbox) of the
\* source and role of the last wkw_read_cached
MemoryEntry ==
    LET source == data_sources[ret.source_idx + 1]
        abs_pos == IF ret.source_type = "input" THEN source.input_bbox ELSE source.target_bbox
    IN  /\ ret.wkw_path \in DOMAIN data_cache_input
        /\ str(abs_pos) \in DOMAIN data_cache_input[ret.wkw_path]

DiskEntry == hdd_cache[ret.wkw_path].header

\* C11 (as claimed): a wkw_read_cached that finds no memory entry and a disk
\* cache for the path returns the disk cache's data only when each of its six
\* faces holds a non-zero voxel, and the data of the source otherwise.
C11_DiskFallbackChecksCompleteness ==
    (ret.op = "wkw_read_cached" /\ ~MemoryEntry /\ DiskEntry) =>
        LET cube == wkw_read(hdd_cache[ret.wkw_path].data, ret.wkw_bbox)
        IN  /\ ret.raised = ""
            /\ ret.data = IF SixFacesNonZero(cube) THEN cube
                          ELSE DirectRead(ret.wkw_path, ret.wkw_bbox)

\* C12 (as claimed): every wkw_read_cached reads the first tier that holds the
\* data, in the order memory, disk, source, and no tier after it.
C12_TiersInOrder ==
    ret.op = "wkw_read_cached" =>
        /\ MemoryEntry => ret.reads = <<"ram">>
        /\ (~MemoryEntry /\ DiskEntry) => ret.reads = <<"hdd">>
        /\ (~MemoryEntry /\ ~DiskEntry) => ret.reads = <<"source">>

\* what does hold of the tiers: a memory hit reads the memory table alone, a
\* call without memory entry raises before it reads anything, and no call
\* changes the memory table or the disk cache
MemoryTierFirst ==
    ret.op = "wkw_read_cached" =>
        /\ MemoryEntry => (ret.raised = "" /\ ret.reads = <<"ram">>)
        /\ ~MemoryEntry => (ret.raised = "KeyError" /\ ret.reads = <<>>)

ReadCachedKeepsCaches ==
    [][ret'.op = "wkw_read_cached" => UNCHANGED <<data_cache_input, hdd_cache>>]_vars

----------------------------------------------------------------------------
(* Properties of the sample assembler (specification SpecSample) *)

sample_called == ret.op = "get_ordered_sample"
sample_returned == sample_called /\ ret.raised = ""
SampleSourceOf == data_sources[ret.source_idx + 1]

\* C13 (as claimed): for a source with target_binary true nothing reads its
\* target_path at its target_bbox, neither fill_caches nor get_ordered_sample,
\* and the target of a sample is the scalar target_class.
C13_BinaryTargetNeverRead ==
    /\ ret.op = "fill_cache" =>
          ~(ret.source_type = "target" /\ data_sources[ret.source_idx + 1].target_binary)
    /\ (sample_called /\ SampleSourceOf.target_binary) =>
          /\ \A i \in DOMAIN ret.reads : ret.reads[i].source_type # "target"
          /\ ret.raised = "" =>
                (ret.target.shape = <<>> /\ ret.target.at[<<>>] = <<SampleSourceOf.target_class, 1>>)

\* what does hold for scalar-label sources: get_ordered_sample itself reads
\* the input alone and, when it returns, returns the label
BinarySampleReadsInputOnly ==
    (sample_called /\ SampleSourceOf.target_binary) =>
        /\ \A i \in DOMAIN ret.reads : ret.reads[i].source_type = "input"
        /\ ret.raised = "" =>
              (ret.target.shape = <<>> /\ ret.target.at[<<>>] = <<SampleSourceOf.target_class, 1>>)

\* C14 (as claimed): for a sample index outside data_train_inds
\* get_ordered_sample passes neither the input nor the target through the
\* transform.
C14_AugmentTrainingOnly ==
    (sample_called /\ ~in_list(ret.sample_idx, data_train_inds)) => ret.transformed = <<>>

\* what does hold: the input of a sample outside the training split is never
\* transformed
InputAugmentedInTrainingOnly ==
    (sample_called /\ ~in_list(ret.sample_idx, data_train_inds)) =>
        \A i \in DOMAIN ret.transformed : ret.transformed[i] # "input"

\* C15: for a source that is not binary, whose input_path is its target_path
\* and whose input window is its target window, get_ordered_sample reads the
\* input alone, never the target; the target it returns holds the voxels of
\* the input it returns, and the transform is applied at most once, to the
\* input, never to the target.
C15_SelfSupervisedShortcut ==
    (/\ sample_called
     /\ ~SampleSourceOf.target_binary
     /\ SampleSourceOf.input_path = SampleSourceOf.target_path
     /\ ret.bbox_input = ret.bbox_target) =>
        /\ Len(ret.reads) <= 1
        /\ \A i \in DOMAIN ret.reads : ret.reads[i].source_type = "input"
        /\ ret.raised = "" =>
              /\ Len(ret.reads) = 1
              /\ ret.target = ret.input
              /\ ret.transformed \in {<<>>, <<"input">>}
              /\ ret.transformed = <<"input">> <=>
                    (transforms # None /\ in_list(ret.sample_idx, data_train_inds))

\* a training sample of two voxels along x that went through the transform
\* once and came back as input and target
C15_Witness ==
    /\ sample_returned
    /\ SampleSourceOf.input_path = SampleSourceOf.target_path
    /\ ret.bbox_input = ret.bbox_target
    /\ ret.transformed = <<"input">>
    /\ ret.input.shape = <<1, 2, 1>>
    /\ ret.target = ret.input
    /\ normalize

\* C16 (as claimed): with pad_target the padded target has the shape of the
\* input window on every axis, whenever input_shape >= target_shape: pad on an
\* (x, y, z) array, and the target of get_ordered_sample for a source with a
\* target volume.
C16_PadGivesInputShape ==
    /\ ret.op = "pad" => (ret.raised = "" /\ ret.value.shape = input_shape)
    /\ (sample_called /\ pad_target /\ ~SampleSourceOf.target_binary /\ ret.raised # "KeyError") =>
          /\ ret.raised = ""
          /\ ret.target.shape \in {<<1>> \o input_shape, <<1, input_shape[1], input_shape[2]>>}

\* the two parts of C16 apart
PadCallGivesInputShape ==
    ret.op = "pad" => (ret.raised = "" /\ ret.value.shape = input_shape)
PaddedSampleReturns ==
    (sample_called /\ pad_target /\ ~SampleSourceOf.target_binary /\ ret.raised # "KeyError") =>
        ret.raised = ""

\* what does hold of pad on an (x, y, z) array: zeros of width
\* floor((input_shape - target_shape) / 2) on both sides of every axis
PadWidthIsFloor ==
    ret.op = "pad" =>
        LET w == [i \in 1..3 |-> (input_shape[i] - output_shape[i]) \div 2]
        IN  /\ ret.raised = ""
            /\ ret.value.shape = [i \in 1..3 |-> output_shape[i] + 2 * w[i]]
            /\ \A p \in DOMAIN ret.value.at :
                  ret.value.at[p] =
                      IF \A i \in 1..3 : w[i] <= p[i] /\ p[i] < w[i] + output_shape[i]
                      THEN ret.target.at[<<p[1] - w[1], p[2] - w[2], p[3] - w[3]>>]
                      ELSE <<0, 1>>

----------------------------------------------------------------------------
(* Properties of the sparse result writer (specification SpecWriter) *)

write_returned == ret.op = "write_output_to_cache" /\ ret.raised = ""

\* the (path, bbox, label) triples that hold a volume
Triples(cache) ==
    UNION {{<<cache[i].wkw_path, cache[i].wkw_bbox, l>> : l \in DOMAIN cache[i].labels} :
              i \in DOMAIN cache}

VolumeOf(cache, t) == cache[entry_of(cache, t[1], t[2])].labels[t[3]]

\* the source and the target window of the k-th sample of the batch
BatchSource(k) == data_sources[get_bbox_for_sample_idx(ret.sample_inds[k], "target")[1] + 1]
BatchWindow(k) == get_bbox_for_sample_idx(ret.sample_inds[k], "target")[2]

\* the rounds of the batch that write to the triple t
RoundsOn(t) ==
    {k \in DOMAIN ret.sample_inds :
        /\ BatchSource(k).input_path = t[1]
        /\ str(BatchSource(k).input_bbox) = t[2]
        /\ ret.output_label = t[3]}

\* voxel p of the volume of the bbox of source lies in the window of round k
Covers(k, p) ==
    \A a \in 1..3 :
        /\ BatchWindow(k)[a] - BatchSource(k).input_bbox[a] <= p[a]
        /\ p[a] < BatchWindow(k)[a] - BatchSource(k).input_bbox[a] + BatchWindow(k)[3 + a]

\* C17: a call of write_output_to_cache returns; a triple that no round of
\* the batch addresses has the volume it had, or none as before; a triple
\* that a round addresses has a volume of the extent of the source bbox in
\* which every voxel inside a target window (taken relative to the origin of
\* the source bbox) holds the output value of the last round covering it,
\* and every other voxel holds what it held before, NaN if the triple had no
\* volume before.
C17_WriteSetsSubRegionOnly ==
    ret.op = "write_output_to_cache" =>
        /\ ret.raised = ""
        /\ \A t \in Triples(ret.before) \cup Triples(data_cache_output) :
              IF RoundsOn(t) = {}
              THEN /\ t \in Triples(ret.before) /\ t \in Triples(data_cache_output)
                   /\ VolumeOf(data_cache_output, t) = VolumeOf(ret.before, t)
              ELSE LET k0 == CHOOSE k \in RoundsOn(t) : TRUE
                       ext == BatchSource(k0).input_bbox
                       vol == VolumeOf(data_cache_output, t)
                   IN  /\ t \in Triples(data_cache_output)
                       /\ vol.shape = <<ext[4], ext[5], ext[6]>>
                       /\ DOMAIN vol.at = Index3(vol.shape)
                       /\ \A p \in DOMAIN vol.at :
                             LET ks == {k \in RoundsOn(t) : Covers(k, p)}
                             IN  IF ks # {}
                                 THEN LET k == CHOOSE k \in ks : \A j \in ks : j <= k
                                          w == BatchWindow(k)
                                          b == BatchSource(k).input_bbox
                                      IN  vol.at[p] = ret.outputs[k].at[<<p[1] - (w[1] - b[1]),
                                                                         p[2] - (w[2] - b[2]),
                                                                         p[3] - (w[3] - b[3])>>]
                                 ELSE vol.at[p] = IF t \in Triples(ret.before)
                                                  THEN VolumeOf(ret.before, t).at[p]
                                                  ELSE NaN
        /\ \A k \in DOMAIN ret.sample_inds :
              <<BatchSource(k).input_path, str(BatchSource(k).input_bbox), ret.output_label>>
                  \in Triples(data_cache_output)

\* a second call writes into a volume that the first call allocated: a voxel
\* written before and outside the windows of this batch keeps its value,
\* next to a voxel that is still NaN
C17_Witness ==
    /\ write_returned
    /\ \E t \in Triples(ret.before) :
          /\ RoundsOn(t) # {}
          /\ \E p, q \in DOMAIN VolumeOf(ret.before, t).at :
                /\ VolumeOf(ret.before, t).at[p] # NaN
                /\ \A k \in RoundsOn(t) : ~Covers(k, p) /\ ~Covers(k, q)
                /\ VolumeOf(data_cache_output, t).at[p] = VolumeOf(ret.before, t).at[p]
                /\ VolumeOf(data_cache_output, t).at[q] = NaN

\* a call that leaves the volume of another triple alone
WriteLeavesOtherTriple ==
    write_returned /\ \E t \in Triples(ret.before) : RoundsOn(t) = {}

interpolate_called == ret.op = "interpolate_sparse_cache"

\* slice z of the volume after holds the written voxels of before as they
\* were and, in every other voxel, the value of a written voxel of the slice
\* that no other written voxel of the slice is nearer to
Densified(before, after, z) ==
    \A p \in {q \in DOMAIN before.at : q[3] = z} :
        IF before.at[p] # NaN THEN after.at[p] = before.at[p]
        ELSE \E a \in points_of(before, z) :
                /\ \A b \in points_of(before, z) :
                      dist2(a, <<p[1], p[2]>>) <= dist2(b, <<p[1], p[2]>>)
                /\ after.at[p] = before.at[<<a[1], a[2], z>>]

SameSlice(before, after, z) ==
    \A p \in {q \in DOMAIN before.at : q[3] = z} : after.at[p] = before.at[p]

\* the slices of the volumes of the label, as (entry, z), in the order of the
\* loops of interpolate_sparse_cache
SlicesOf(cache, output_label) ==
    {<<i, z>> \in (DOMAIN cache) \X (0..3) :
        /\ output_label \in DOMAIN cache[i].labels
        /\ z < cache[i].labels[output_label].shape[3]}
Before(s, t) == s[1] < t[1] \/ (s[1] = t[1] /\ s[2] < t[2])

\* C18 (as claimed): interpolate_sparse_cache(label, 'nearest') leaves every
\* written voxel of the volumes of the label at its value and gives every
\* other voxel of every slice the value of a nearest written voxel of the
\* same slice.
C18_NearestFillsEverySlice ==
    interpolate_called =>
        /\ ret.raised = ""
        /\ \A s \in SlicesOf(ret.before, ret.output_label) :
              Densified(ret.before[s[1]].labels[ret.output_label],
                        data_cache_output[s[1]].labels[ret.output_label], s[2])

\* C18 (amended): the call keeps the entries and the shapes of the cache and
\* the volumes of other labels; no written voxel changes; when it returns,
\* every slice of a volume of the label that held a written voxel is filled
\* from the nearest written voxels of that slice and a slice without written
\* voxel is NaN as before; when it raises, IndexError at a slice without
\* written voxel or KeyError at an entry without the label, the slices
\* visited before that point are filled in this way and all others are as
\* they were.
C18_NearestFillsWrittenSlices ==
    interpolate_called =>
        LET l == ret.output_label
            all == SlicesOf(ret.before, l)
            vol(cache, s) == cache[s[1]].labels[l]
            filled(s) == IF points_of(vol(ret.before, s), s[2]) = {}
                         THEN SameSlice(vol(ret.before, s), vol(data_cache_output, s), s[2])
                         ELSE Densified(vol(ret.before, s), vol(data_cache_output, s), s[2])
        IN  /\ Len(data_cache_output) = Len(ret.before)
            /\ \A i \in DOMAIN ret.before :
                  /\ data_cache_output[i].wkw_path = ret.before[i].wkw_path
                  /\ data_cache_output[i].wkw_bbox = ret.before[i].wkw_bbox
                  /\ DOMAIN data_cache_output[i].labels = DOMAIN ret.before[i].labels
                  /\ \A k \in DOMAIN ret.before[i].labels :
                        /\ data_cache_output[i].labels[k].shape = ret.before[i].labels[k].shape
                        /\ k # l => data_cache_output[i].labels[k] = ret.before[i].labels[k]
            /\ ret.raised \in {"", "IndexError", "KeyError"}
            /\ ret.raised = "" =>
                  /\ \A s \in all : filled(s)
                  /\ \A i \in DOMAIN ret.before : l \in DOMAIN ret.before[i].labels
            /\ ret.raised = "IndexError" =>
                  \E c \in all :
                      /\ points_of(vol(ret.before, c), c[2]) = {}
                      /\ \A i \in 1..c[1] : l \in DOMAIN ret.before[i].labels
                      /\ \A s \in all :
                            IF Before(s, c) THEN filled(s)
                            ELSE SameSlice(vol(ret.before, s), vol(data_cache_output, s), s[2])
            /\ ret.raised = "KeyError" =>
                  \E i \in DOMAIN ret.before :
                      /\ l \notin DOMAIN ret.before[i].labels
                      /\ \A j \in 1..(i - 1) : l \in DOMAIN ret.before[j].labels
                      /\ \A s \in all :
                            IF s[1] < i THEN filled(s)
                            ELSE SameSlice(vol(ret.before, s), vol(data_cache_output, s), s[2])

\* a call that returned and filled a voxel of a slice whose written voxels
\* hold different values, one of them farther from it than the nearest
C18_Witness ==
    /\ interpolate_called
    /\ ret.raised = ""
    /\ \E s \in SlicesOf(ret.before, ret.output_label) :
          LET before == ret.before[s[1]].labels[ret.output_label]
              after == data_cache_output[s[1]].labels[ret.output_label]
          IN  \E p \in {q \in DOMAIN before.at : q[3] = s[2]} :
                 /\ before.at[p] = NaN
                 /\ after.at[p] # NaN
                 /\ \E a, b \in points_of(before, s[2]) :
                       /\ dist2(a, <<p[1], p[2]>>) < dist2(b, <<p[1], p[2]>>)
                       /\ before.at[<<a[1], a[2], s[2]>>] # before.at[<<b[1], b[2], s[2]>>]
                       /\ after.at[p] = before.at[<<a[1], a[2], s[2]>>]

\* the two ways a call ends early
InterpolateRaisedIndexError == interpolate_called /\ ret.raised = "IndexError"
InterpolateRaisedKeyError == interpolate_called /\ ret.raised = "KeyError"

\* a voxel with two nearest written voxels of different values
InterpolateTie ==
    /\ interpolate_called
    /\ \E s \in SlicesOf(ret.before, ret.output_label) :
          LET before == ret.before[s[1]].labels[ret.output_label]
          IN  \E p \in {q \in DOMAIN before.at : q[3] = s[2] /\ before.at[q] = NaN} :
                 \E a, b \in points_of(before, s[2]) :
                    /\ dist2(a, <<p[1], p[2]>>) = dist2(b, <<p[1], p[2]>>)
                    /\ \A c \in points_of(before, s[2]) :
                          dist2(a, <<p[1], p[2]>>) <= dist2(c, <<p[1], p[2]>>)
                    /\ before.at[<<a[1], a[2], s[2]>>] # before.at[<<b[1], b[2], s[2]>>]

----------------------------------------------------------------------------
(* Properties of concurrent workers (specification SpecWorkers) *)

workers_run == pc \in {"workers", "export"}
workers_ended == workers_run /\ \A w \in Workers : workers[w].pc \in {"done", "raised"}

\* the directory a worker creates when missing
DirectoryOf(w) ==
    IF pc = "workers" THEN hdd_cache[workers[w].wkw_path]
    ELSE output_dataset(export_path(w))

\* C19 (as claimed): no worker of fill_cache or wkw_write_cache fails over a
\* directory or dataset that another worker made between its test and its
\* creation step, and when all workers have ended all of them completed and
\* the directory is there.
C19_ConcurrentCreationTolerated ==
    workers_run =>
        /\ \A w \in Workers : workers[w].raised \notin {"FileExistsError", "WKWException"}
        /\ workers_ended =>
              \A w \in Workers :
                  workers[w].raised = "KeyError" \/
                  (workers[w].pc = "done" /\ ((pc = "workers" /\ ~cache_HDD) \/ DirectoryOf(w).dir))

\* the parts of C19 apart: fill_cache, wkw_write_cache
FillWorkersTolerateCreation ==
    pc = "workers" => \A w \in Workers : workers[w].raised = ""
ExportWorkersTolerateCreation ==
    pc = "export" => \A w \in Workers : workers[w].raised \notin {"FileExistsError", "WKWException"}

\* a worker fails in os.makedirs only after another worker made the
\* directory, and in the dataset calls only beside another worker
CreationFailsBesideAnotherWorker ==
    workers_run =>
        \A w \in Workers :
            workers[w].raised \in {"FileExistsError", "WKWException"} =>
                \E v \in Workers \ {w} :
                    /\ workers[v].pc \notin {"fetch", "RAM_test", "RAM_store"}
                    /\ (pc = "workers" => workers[v].wkw_path = workers[w].wkw_path)
                    /\ (pc = "export" => workers[v].output_label = workers[w].output_label)

\* the workers of fill_cache all fill one (path, bbox)
same_key ==
    /\ pc = "workers"
    /\ \A w \in Workers : /\ workers[w].wkw_path = workers[1].wkw_path
                          /\ workers[w].wkw_bbox = workers[1].wkw_bbox

\* the memory entry of the key of worker 1 is there
entry_present ==
    /\ workers[1].wkw_path \in DOMAIN data_cache_input
    /\ str(workers[1].wkw_bbox) \in DOMAIN data_cache_input[workers[1].wkw_path]
entry_value == data_cache_input[workers[1].wkw_path][str(workers[1].wkw_bbox)]
SourceCube == wkw_read(wkw_store[workers[1].wkw_path], workers[1].wkw_bbox)
fetched(w) == workers[w].pc \notin {"fetch"}

\* C20 (as claimed): while workers fill one (path, bbox) side by side the
\* memory entry of the key is absent or a whole cube that a worker fetched,
\* and once all of them have finished the entry is there and equals the data
\* of the source.
C20_ConcurrentFillEqualsSource ==
    (same_key /\ cache_RAM) =>
        /\ entry_present =>
              \E w \in Workers : fetched(w) /\ entry_value = workers[w].data
        /\ (\A w \in Workers : workers[w].pc = "done") =>
              (entry_present /\ entry_value = SourceCube)

\* the first half of C20: a reader never sees a part of a cube
FillEntryAbsentOrFetchedCube ==
    (same_key /\ cache_RAM) =>
        (entry_present =>
            /\ \E w \in Workers : fetched(w) /\ entry_value = workers[w].data
            /\ entry_value.shape = <<workers[1].wkw_bbox[4], workers[1].wkw_bbox[5], workers[1].wkw_bbox[6]>>
            /\ DOMAIN entry_value.at = Index3(entry_value.shape))

\* the second half of C20 without the disk cache
MemoryOnlyFillEqualsSource ==
    (same_key /\ cache_RAM /\ ~cache_HDD) =>
        /\ entry_present => entry_value = SourceCube
        /\ (\A w \in Workers : workers[w].pc = "done") => entry_present

\* with the disk cache the entry differs from the source only where it holds
\* a zero that the completeness test let pass
FillEntryDiffersByZeros ==
    (same_key /\ cache_RAM /\ entry_present) =>
        /\ assert_data_completeness(entry_value) \/ entry_value = SourceCube
        /\ \A p \in DOMAIN entry_value.at :
              entry_value.at[p] \in {0, SourceCube.at[p]}

\* workers for two bboxes of one path: both found the path missing, and the
\* dict that the second one assigns at line 380 drops the entry of the first
FillEntryLost ==
    /\ pc = "workers" /\ cache_RAM
    /\ \A w \in Workers : workers[w].pc \notin {"fetch", "RAM_test", "RAM_store"}
    /\ \E w \in Workers : str(workers[w].wkw_bbox) \notin DOMAIN data_cache_input[workers[w].wkw_path]

\* the memory table holds an entry for the (path, bbox) of worker w
entry_kept(w) ==
    /\ workers[w].wkw_path \in DOMAIN data_cache_input
    /\ str(workers[w].wkw_bbox) \in DOMAIN data_cache_input[workers[w].wkw_path]

fill_completed(w) == pc = "workers" /\ workers[w].pc = "done"

\* C28 (as claimed): with memory caching on, whenever the concurrent
\* fill_cache calls have all ended, the memory table holds an entry for the
\* (path, bbox) of every call that completed; two fills of one path with
\* different bboxes both leave their entry.
C28_ConcurrentFillKeepsEntries ==
    (pc = "workers" /\ cache_RAM /\ workers_ended) =>
        \A w \in Workers : fill_completed(w) => entry_kept(w)

\* an entry is missing only beside a fill of the same path with another bbox
EntryLostOnlyBesideSamePath ==
    (pc = "workers" /\ cache_RAM) =>
        \A w \in Workers :
            (fill_completed(w) /\ ~entry_kept(w)) =>
                \E o \in Workers : /\ o # w
                                   /\ workers[o].wkw_path = workers[w].wkw_path
                                   /\ workers[o].wkw_bbox # workers[w].wkw_bbox
                                   /\ workers[o].pc \notin {"fetch", "RAM_test"}

\* fills of different paths, or of one (path, bbox), keep every entry
FillKeepsEntriesOfOtherPaths ==
    (pc = "workers" /\ cache_RAM) =>
        \A w \in Workers :
            (/\ fill_completed(w)
             /\ \A o \in Workers : \/ workers[o].wkw_path # workers[w].wkw_path
                                   \/ workers[o].wkw_bbox = workers[w].wkw_bbox)
                => entry_kept(w)

\* the last store of a path at line 380 is the one whose entry is left
LastStoreKept ==
    [][\A w \in Workers :
          (pc = "workers" /\ cache_RAM /\ workers[w].pc = "RAM_store" /\ workers'[w].pc # "RAM_store")
              => entry_kept(w)']_vars

----------------------------------------------------------------------------
(* Properties of repeated samples (specification SpecRepeat) *)

first_recorded == "op" \in DOMAIN first_sample

\* the first call is being repeated: the same index, on a dataset without
\* augmentation
repeated ==
    /\ sample_returned
    /\ first_recorded
    /\ ret.sample_idx = first_sample.sample_idx

----------------------------------------------------------------------------
(* Properties of the seeded shuffle (specification SpecSeed) *)

second_built == first_split # None /\ pc = "ready"
same_split ==
    /\ data_train_inds = first_split.train
    /\ data_validation_inds = first_split.validation
    /\ data_test_inds = first_split.test

\* C22: a dataset built with the arguments of an earlier one obtains the
\* train, validation and test lists of the earlier one, also when both are
\* built one after the other in one process
C22_SplitReproducible == second_built => same_split

\* built by another run of the program, the second dataset has the lists of
\* the first
SplitReproducibleAcrossRuns == (second_built /\ rng_pos = 1) => same_split

\* built in the same process, the second dataset has drawn the second
\* permutation of the generator
SecondDatasetDrawsOn ==
    (second_built /\ rng_pos = 2) =>
        /\ Len(rng_stream) = 2
        /\ same_split <=> (fraction_split(rng_stream[1]) = fraction_split(rng_stream[2]))

----------------------------------------------------------------------------
(* Properties of the registry (specification SpecRegistry) *)

\* the value of a field as the data model has it: a bbox is its six integers
same_value(field, x, y) == IF field \in BBoxFields THEN x.items = y.items ELSE x = y
same_fields(a, b, fields) == \A f \in fields : same_value(f, a[f], b[f])
same_sources(a, b) ==
    /\ Len(a) = Len(b)
    /\ \A i \in DOMAIN a : same_fields(a[i], b[i], FieldNames)

\* C23: a non-empty list of data sources with unique ids that is written in
\* the short form and read back with read_short_ds_json comes back as data
\* sources with the same ids and the same value in every field, in the
\* order of the list
C23_ShortRoundTrip ==
    [][(/\ ret.op = "write_short_ds_json"
        /\ ret.convert_to_short
        /\ ret'.op = "read_short_ds_json"
        /\ ret'.json_path = ret.json_path) =>
          /\ ret'.raised = ""
          /\ same_sources(ret'.datasources, ret.datasources)]_vars

short_file == json_files["/short.json"]
short_read == ret.op = "read_short_ds_json" /\ ret.json_path = "/short.json"

\* two sources that share no field were written in the short form and read back
C23_Witness ==
    /\ short_read
    /\ has_key(short_file.json, "shared_properties")
    /\ short_file.json.at["shared_properties"].order = <<>>
    /\ Len(ret.datasources) = 2

\* a single source, all of whose fields are shared, was written and read back
SingleSourceReadBack ==
    /\ short_read
    /\ has_key(short_file.json, "shared_properties")
    /\ short_file.json.at["shared_properties"].order = Fields
    /\ Len(ret.datasources) = 1

\* a bbox that was a tuple comes back as a list
TupleReadBackAsList ==
    (short_read /\ ret.raised = "") =>
        \A i \in DOMAIN ret.datasources :
            /\ ret.datasources[i].input_bbox.py = "list"
            /\ ret.datasources[i].target_bbox.py = "list"

\* the data sources of a descriptor file
Descriptors(json_path) == datasources_from_json(json_files[json_path].json).value

\* the sources in the files before the k-th one of the list
RECURSIVE Offset(_, _)
Offset(json_paths_in, k) ==
    IF k = 1 THEN 0
    ELSE Offset(json_paths_in, k - 1) + Len(Descriptors(json_paths_in[k - 1]))

concat_returned == ret.op = "concat_datasources"

\* C24: concat_datasources returns as many sources as the files hold
\* together, the sources of the first file first and each file's sources in
\* their order, every field but id unchanged, with the ids "0", "1", ...,
\* which are pairwise distinct
C24_ConcatRenumbers ==
    concat_returned =>
        /\ Len(ret.datasources) = Offset(ret.json_paths_in, Len(ret.json_paths_in) + 1)
        /\ \A k \in DOMAIN ret.json_paths_in :
              \A j \in DOMAIN Descriptors(ret.json_paths_in[k]) :
                  same_fields(ret.datasources[Offset(ret.json_paths_in, k) + j],
                              Descriptors(ret.json_paths_in[k])[j], FieldNames \ {"id"})
        /\ \A i \in DOMAIN ret.datasources : ret.datasources[i].id = ToString(i - 1)
        /\ \A i, j \in DOMAIN ret.datasources :
              i # j => ret.datasources[i].id # ret.datasources[j].id

\* two files were concatenated that both hold a source with the id "1"
C24_Witness ==
    /\ concat_returned
    /\ Len(ret.json_paths_in) = 2
    /\ ret.json_paths_in[1] # ret.json_paths_in[2]
    /\ \A k \in 1..2 : Descriptors(ret.json_paths_in[k])[1].id = "1"
    /\ Len(ret.datasources) = 3
    /\ ret.datasources[3].id = "2"

bbox_called == ret.op = "datasources_bbox_from_json"
called_grid == grid_of(ret.json_path, ret.bbox_ext)
Corners(g) ==
    {<<g[1][a], g[2][b], g[3][c]>> : a \in DOMAIN g[1], b \in DOMAIN g[2], c \in DOMAIN g[3]}
bbox_for(bbox_idx) ==
    datasources_bbox_from_json(json_files[ret.json_path].json, ret.bbox_ext, bbox_idx, 0)
origin_for(bbox_idx) == SubSeq(bbox_for(bbox_idx).bbox, 1, 3)

\* on the grid of the call every bbox_idx below the number of sub-boxes
\* gives a bbox without an error, at a corner of the grid, and no two give
\* the same corner
grid_consistent ==
    /\ \A i \in 0..(n_boxes(called_grid) - 1) :
          /\ bbox_for(i).raised = ""
          /\ origin_for(i) \in Corners(called_grid)
    /\ \A i, j \in 0..(n_boxes(called_grid) - 1) :
          i # j => origin_for(i) # origin_for(j)

\* C27: for every grid shape, also with n_x # n_y, and every bbox_idx in
\* [0, n_x*n_y*n_z) datasources_bbox_from_json returns without an index
\* error a bbox whose origin is a corner of the grid; distinct bbox_idx give
\* distinct corners, so that all corners are covered
C27_BBoxGridConsistent == bbox_called => (ret.raised = "" /\ grid_consistent)

\* with as many sub-boxes along x as along y the claim holds
BBoxGridConsistentIfSquare ==
    (bbox_called /\ Len(called_grid[1]) = Len(called_grid[2])) =>
        (ret.raised = "" /\ grid_consistent)

\* with n_x # n_y some bbox_idx below the number of sub-boxes ends in an
\* IndexError, and no call fails in another way
BBoxIndexErrorIfNotSquare ==
    bbox_called =>
        /\ ret.raised \in {"", "IndexError"}
        /\ Len(called_grid[1]) # Len(called_grid[2]) =>
              \E i \in 0..(n_boxes(called_grid) - 1) : bbox_for(i).raised = "IndexError"

\* a call on a grid with n_x # n_y that returned: its bbox is at the corner
\* (x[yi], y[xi], z[zi])
BBoxSwappedWhenReturned ==
    (bbox_called /\ ret.raised = "") =>
        LET p == unravel_index(ret.bbox_idx, <<Len(called_grid[1]), Len(called_grid[2]),
                                               Len(called_grid[3])>>)
        IN  SubSeq(ret.bbox, 1, 3)
                = <<called_grid[1][p[2] + 1], called_grid[2][p[1] + 1], called_grid[3][p[3] + 1]>>

----------------------------------------------------------------------------
(* Properties of get_random_sample (specification SpecRandom) *)

random_called == ret.op = "get_random_sample"

\* C30: on a dataset of length N >= 1 get_random_sample completes without
\* an error and the index it draws can be any of 0..N-1, the last included
C30_RandomSampleAnyIndex ==
    (random_called /\ len_self >= 1) =>
        /\ ret.raised = ""
        /\ ret.population = 0..(len_self - 1)

\* the last index is never among those drawn from
RandomSampleNeverLast == random_called => (len_self - 1) \notin ret.population

\* no call returns: ValueError on a dataset of length 1 or 0, TypeError on
\* every longer one
RandomSampleAlwaysRaises ==
    random_called => ret.raised = IF len_self <= 1 THEN "ValueError" ELSE "TypeError"

\* a call on a dataset of length 1
RandomSampleOfOne == random_called /\ len_self = 1

----------------------------------------------------------------------------
(* Properties of the memoized lookups (specification SpecMemo) *)

source_looked_up == ret.op = "get_source_idx_from_sample_idx"
target_looked_up == ret.op = "get_target_from_sample_idx"
owner_of(sample_idx) == get_source_mesh_for_sample_idx(sample_idx)[1]

source_fresh == ret.value = owner_of(ret.sample_idx)
target_fresh == ret.value = data_sources[owner_of(ret.sample_idx) + 1].target_class

\* C25: whatever lookups, statistics updates and replacements of data sources
\* went before, get_source_idx_from_sample_idx(i) returns the source that
\* get_source_mesh_for_sample_idx(i) returns, and get_target_from_sample_idx(i)
\* the target_class that source has now
C25_MemoNeverStale ==
    /\ source_looked_up => source_fresh
    /\ target_looked_up => target_fresh

\* the source lookup is never stale
SourceLookupFresh == source_looked_up => source_fresh

\* the target lookup is right whenever it is computed, and an answer from
\* the table is the class the source had at some time
TargetLookupFreshOnMiss == (target_looked_up /\ ~ret.hit) => target_fresh

\* update_datasource_stats leaves the class labels alone
StatsUpdateKeepsTargets ==
    [][ret'.op = "update_datasource_stats" =>
          \A i \in DOMAIN data_sources :
              data_sources'[i].target_class = data_sources[i].target_class]_vars

\* a target answered from the table after the source got another label
TargetLookupStale == target_looked_up /\ ret.hit /\ ~target_fresh

----------------------------------------------------------------------------
(* Properties of the windows (specification Spec) *)

\* the window b lies inside the box
inside(b, box) ==
    \A a \in 1..3 : box[a] <= b[a] /\ b[a] + b[3 + a] <= box[a] + box[3 + a]

\* the slices rel:rel+extent that lines 325-328 and 407-413 take of a volume
\* of the box's extent select the window as it is: no start is negative and
\* no stop beyond the volume
region_exact(b, box) ==
    \A a \in 1..3 :
        np_slice(b[a] - box[a], b[a] - box[a] + b[3 + a], box[3 + a])
            = <<b[a] - box[a], b[3 + a]>>

window_of(sample_idx, sample_type) == get_bbox_for_sample_idx(sample_idx, sample_type)[2]
owner_bbox(sample_idx) ==
    data_sources[get_bbox_for_sample_idx(sample_idx, "input")[1] + 1].input_bbox
target_fits_input == \A a \in 1..3 : output_shape[a] <= input_shape[a]

\* C26: for every global index the input window lies inside the input_bbox
\* of the owning source, and with target_shape <= input_shape on every axis
\* the target window does too; the regions that write_output_to_cache and
\* the memory cache slice out of a volume of that bbox for these windows
\* start at a non-negative offset and end within the volume
C26_WindowsInsideBBox ==
    pc = "ready" =>
        \A sample_idx \in 0..(len_self - 1) :
            /\ inside(window_of(sample_idx, "input"), owner_bbox(sample_idx))
            /\ region_exact(window_of(sample_idx, "input"), owner_bbox(sample_idx))
            /\ target_fits_input =>
                  /\ inside(window_of(sample_idx, "target"), owner_bbox(sample_idx))
                  /\ region_exact(window_of(sample_idx, "target"), owner_bbox(sample_idx))

\* a dataset of two sources whose last input window ends at the far corner
\* of its bbox, with a target window smaller than the input window
C26_Witness ==
    /\ pc = "ready"
    /\ Len(data_sources) = 2
    /\ len_self >= 2
    /\ output_shape # input_shape
    /\ \A a \in 1..3 :
          window_of(len_self - 1, "input")[a] + input_shape[a]
              = owner_bbox(len_self - 1)[a] + owner_bbox(len_self - 1)[3 + a]
    /\ window_of(len_self - 1, "target") # window_of(len_self - 1, "input")

============================================================================
